---- MODULE Spec2Model ----
(***************************************************************************)
(* Replay-and-execution engine of trading-gym: the client store            *)
(* (positions ledger, SL/TP evaluator, replay cursor), the replay          *)
(* controls that drive it and the backend trade routes.                    *)
(*                                                                         *)
(* Prices, sizes and balances are integers (the code uses IEEE doubles;    *)
(* rounding is not modelled).  Indices are 0-based as in the code; a       *)
(* sequence s is read at index i as s[i + 1].                              *)
(***************************************************************************)
EXTENDS Integers, Sequences, FiniteSets, TLC

VARIABLES
    candlesWithTicks,     \* store.candlesWithTicks
    candles,              \* store.candles (basic mode series)
    currentCandleIndex,   \* store.currentCandleIndex
    currentTickIndex,     \* store.currentTickIndex
    progressiveMode,      \* store.progressiveMode
    openTrades,           \* store.openTrades
    closedTrades,         \* store.closedTrades
    balance,              \* store.balance
    trades,               \* backend table trades: id -> row
    inflight,             \* PUT /trades/:id/close responses not yet handled by the client
    isPlaying,            \* store.isPlaying
    savedState,           \* the session state read from localStorage when the page was loaded
    call                  \* history: the operations applied, each with the state before it

vars == <<candlesWithTicks, candles, currentCandleIndex, currentTickIndex,
          progressiveMode, openTrades, closedTrades, balance, trades,
          inflight, isPlaying, savedState, call>>

cursorVars == <<currentCandleIndex, currentTickIndex>>
ledgerVars == <<openTrades, closedTrades, balance>>
seriesVars == <<candlesWithTicks, candles>>

----------------------------------------------------------------------------
(* Bounds of the model *)

MaxPrice == 3
MaxSize == 2
MaxTrades == 1
MaxCandles == 2
MaxCloses == 1

(* Program constants *)

DefaultBalance == 10000

(* JavaScript null / undefined, kept apart from every number of the model *)
NULL == -100
UNDEFINED == -200

Prices == 1..MaxPrice
Levels == {NULL} \cup (0..MaxPrice)
Sizes == 1..MaxSize
Sides == {"BUY", "SELL"}

(* Orders placed in the sessions of Spec: side, stop-loss, take-profit.  The
   levels are the extremes of the market data below. *)
OrderChoices ==
    {<<"BUY", NULL, NULL>>, <<"BUY", 1, NULL>>, <<"BUY", 1, 3>>,
     <<"SELL", 3, 1>>}

(* Request values a caller may send, valid or not *)
BodyNumbers == {-1, 0, 1}
BodySides == Sides \cup {"HOLD"}

----------------------------------------------------------------------------
(* JavaScript helpers *)

Truthy(x) == x # NULL /\ x # UNDEFINED /\ x # 0

Min(a, b) == IF a <= b THEN a ELSE b
Max0(a) == IF a >= 0 THEN a ELSE 0

SetMax(S) == CHOOSE x \in S : \A y \in S : y <= x
SetMin(S) == CHOOSE x \in S : \A y \in S : x <= y

----------------------------------------------------------------------------
(* The series: candles, each with the ticks generated for it *)

(* generateCandleTicks: tick i carries the running high/low of the path's
   prices 0..i, seeded at the candle's open *)
generateCandleTicks(open, pricePoints) ==
    [i \in 1..Len(pricePoints) |->
        [runningOpen  |-> open,
         runningHigh  |-> SetMax({open} \cup {pricePoints[j] : j \in 1..i}),
         runningLow   |-> SetMin({open} \cup {pricePoints[j] : j \in 1..i}),
         runningClose |-> pricePoints[i],
         isFinalTick  |-> (i = Len(pricePoints))]]

(* A candle of the market data with the ticks stored for it (none when
   pricePoints is empty) *)
Candle(o, h, l, c, pricePoints) ==
    [open |-> o, high |-> h, low |-> l, close |-> c,
     ticks |-> generateCandleTicks(o, pricePoints)]

(* The market data the sessions replay: candle i of the series *)
MarketCandle(i) ==
    CASE i % 3 = 0 -> Candle(2, 3, 1, 3, <<2, 1, 3>>)
      [] i % 3 = 1 -> Candle(3, 3, 1, 2, <<>>)
      [] OTHER     -> Candle(2, 3, 1, 1, <<>>)

MarketSeries(n) == [i \in 1..n |-> MarketCandle(i - 1)]

(* loadCandles fallback: candles.map(c => ({...c, ticks: []})) *)
WithoutTicks(series) == [i \in 1..Len(series) |-> [series[i] EXCEPT !.ticks = <<>>]]

----------------------------------------------------------------------------
(* Backend: routes/trades.js over the trades table *)

(* INSERT INTO trades ... RETURNING *: the row of a newly opened trade *)
NewRow(id, tradeType, entryPrice, positionSize, stopLoss, takeProfit) ==
    [id            |-> id,
     trade_type    |-> tradeType,
     entry_price   |-> entryPrice,
     position_size |-> positionSize,
     stop_loss     |-> stopLoss,
     take_profit   |-> takeProfit,
     status        |-> "open",
     exit_price    |-> NULL,
     pnl           |-> NULL,
     exit_reason   |-> "undefined"]

(* POST /open: no validation of the body; the row is inserted as sent *)
PostOpen(table, tradeType, entryPrice, positionSize, stopLoss, takeProfit) ==
    LET id  == Cardinality(DOMAIN table) + 1
        row == NewRow(id, tradeType, entryPrice, positionSize, stopLoss, takeProfit)
    IN  [status |-> 200,
         table  |-> [i \in DOMAIN table \cup {id} |->
                        IF i = id THEN row ELSE table[i]],
         data   |-> row]

(* PUT /:id/close: the realized pnl of the row at exitPrice *)
RoutePnl(trade_type, entry_price, exitPrice, position_size) ==
    IF trade_type = "BUY"
    THEN (exitPrice - entry_price) * position_size
    ELSE (entry_price - exitPrice) * position_size

(* PUT /:id/close: 404 when no row has the id; otherwise the row is updated
   whatever its status *)
PutClose(table, id, exitPrice) ==
    IF id \notin DOMAIN table
    THEN [status |-> 404, table |-> table, data |-> NewRow(id, "undefined", NULL, NULL, NULL, NULL)]
    ELSE LET row == table[id]
             pnl == RoutePnl(row.trade_type, row.entry_price, exitPrice, row.position_size)
             upd == [row EXCEPT !.exit_price = exitPrice, !.pnl = pnl, !.status = "closed"]
         IN  [status |-> 200,
              table  |-> [table EXCEPT ![id] = upd],
              data   |-> upd]

----------------------------------------------------------------------------
(* Store: ledger *)

(* addOpenTrade *)
addOpenTrade(open, trade) == Append(open, trade)

UndefinedTrade ==
    [id            |-> UNDEFINED,
     trade_type    |-> "undefined",
     entry_price   |-> UNDEFINED,
     position_size |-> UNDEFINED,
     stop_loss     |-> UNDEFINED,
     take_profit   |-> UNDEFINED,
     status        |-> "undefined",
     exit_price    |-> UNDEFINED,
     pnl           |-> UNDEFINED,
     exit_reason   |-> "undefined"]

(* Array.prototype.find: the first element with the id, or undefined *)
FindTrade(open, tradeId) ==
    IF \E i \in 1..Len(open) : open[i].id = tradeId
    THEN open[CHOOSE i \in 1..Len(open) :
                 /\ open[i].id = tradeId
                 /\ \A j \in 1..(i - 1) : open[j].id # tradeId]
    ELSE UndefinedTrade

(* Faulty variant of closeTrade: the balance is not updated *)
closeTradeKeepsBalance(open, closed, bal, tradeId, pnl) ==
    LET trade == FindTrade(open, tradeId)
    IN  [openTrades   |-> SelectSeq(open, LAMBDA t : t.id # tradeId),
         closedTrades |-> Append(closed, [trade EXCEPT !.pnl = pnl, !.status = "closed"]),
         balance      |-> bal]

(* closeTrade(tradeId, pnl): no check that the trade is open *)
closeTrade(open, closed, bal, tradeId, pnl) ==
    LET trade == FindTrade(open, tradeId)
    IN  [openTrades   |-> SelectSeq(open, LAMBDA t : t.id # tradeId),
         closedTrades |-> Append(closed, [trade EXCEPT !.pnl = pnl, !.status = "closed"]),
         balance      |-> bal + pnl]

----------------------------------------------------------------------------
(* Store: SL/TP evaluator *)

(* trade.stop_loss ? parseFloat(trade.stop_loss) : null *)
ParseLevel(x) == IF Truthy(x) THEN x ELSE NULL

(* Faulty variants of SLTPDecision *)

(* the take-profit is checked before the stop-loss *)
SLTPDecisionTakeProfitFirst(trade, high, low) ==
    LET stopLoss   == ParseLevel(trade.stop_loss)
        takeProfit == ParseLevel(trade.take_profit)
        keep == [shouldClose |-> FALSE, exitPrice |-> NULL, exitReason |-> ""]
        sl   == [shouldClose |-> TRUE, exitPrice |-> stopLoss, exitReason |-> "Stop Loss"]
        tp   == [shouldClose |-> TRUE, exitPrice |-> takeProfit, exitReason |-> "Take Profit"]
    IN  IF trade.trade_type = "BUY"
        THEN IF Truthy(takeProfit) /\ high >= takeProfit THEN tp
             ELSE IF Truthy(stopLoss) /\ low <= stopLoss THEN sl
             ELSE keep
        ELSE IF Truthy(takeProfit) /\ low <= takeProfit THEN tp
             ELSE IF Truthy(stopLoss) /\ high >= stopLoss THEN sl
             ELSE keep

(* the comparisons are strict: touching a level does not trigger *)
SLTPDecisionStrict(trade, high, low) ==
    LET stopLoss   == ParseLevel(trade.stop_loss)
        takeProfit == ParseLevel(trade.take_profit)
        keep == [shouldClose |-> FALSE, exitPrice |-> NULL, exitReason |-> ""]
        sl   == [shouldClose |-> TRUE, exitPrice |-> stopLoss, exitReason |-> "Stop Loss"]
        tp   == [shouldClose |-> TRUE, exitPrice |-> takeProfit, exitReason |-> "Take Profit"]
    IN  IF trade.trade_type = "BUY"
        THEN IF Truthy(stopLoss) /\ low < stopLoss THEN sl
             ELSE IF Truthy(takeProfit) /\ high > takeProfit THEN tp
             ELSE keep
        ELSE IF Truthy(stopLoss) /\ high > stopLoss THEN sl
             ELSE IF Truthy(takeProfit) /\ low < takeProfit THEN tp
             ELSE keep

(* the exit is filled at the window's extreme instead of the level *)
SLTPDecisionAtExtreme(trade, high, low) ==
    LET stopLoss   == ParseLevel(trade.stop_loss)
        takeProfit == ParseLevel(trade.take_profit)
        keep == [shouldClose |-> FALSE, exitPrice |-> NULL, exitReason |-> ""]
        atLow(reason)  == [shouldClose |-> TRUE, exitPrice |-> low, exitReason |-> reason]
        atHigh(reason) == [shouldClose |-> TRUE, exitPrice |-> high, exitReason |-> reason]
    IN  IF trade.trade_type = "BUY"
        THEN IF Truthy(stopLoss) /\ low <= stopLoss THEN atLow("Stop Loss")
             ELSE IF Truthy(takeProfit) /\ high >= takeProfit THEN atHigh("Take Profit")
             ELSE keep
        ELSE IF Truthy(stopLoss) /\ high >= stopLoss THEN atHigh("Stop Loss")
             ELSE IF Truthy(takeProfit) /\ low <= takeProfit THEN atLow("Take Profit")
             ELSE keep

(* a missing level is replaced by the entry price *)
SLTPDecisionDefaultLevels(trade, high, low) ==
    LET stopLoss   == IF Truthy(trade.stop_loss) THEN trade.stop_loss ELSE trade.entry_price
        takeProfit == IF Truthy(trade.take_profit) THEN trade.take_profit ELSE trade.entry_price
        keep == [shouldClose |-> FALSE, exitPrice |-> NULL, exitReason |-> ""]
        sl   == [shouldClose |-> TRUE, exitPrice |-> stopLoss, exitReason |-> "Stop Loss"]
        tp   == [shouldClose |-> TRUE, exitPrice |-> takeProfit, exitReason |-> "Take Profit"]
    IN  IF trade.trade_type = "BUY"
        THEN IF Truthy(stopLoss) /\ low <= stopLoss THEN sl
             ELSE IF Truthy(takeProfit) /\ high >= takeProfit THEN tp
             ELSE keep
        ELSE IF Truthy(stopLoss) /\ high >= stopLoss THEN sl
             ELSE IF Truthy(takeProfit) /\ low <= takeProfit THEN tp
             ELSE keep

(* The decision of one forEach iteration: shouldClose, exitPrice, exitReason *)
SLTPDecision(trade, high, low) ==
    LET stopLoss   == ParseLevel(trade.stop_loss)
        takeProfit == ParseLevel(trade.take_profit)
        keep == [shouldClose |-> FALSE, exitPrice |-> NULL, exitReason |-> ""]
        sl   == [shouldClose |-> TRUE, exitPrice |-> stopLoss, exitReason |-> "Stop Loss"]
        tp   == [shouldClose |-> TRUE, exitPrice |-> takeProfit, exitReason |-> "Take Profit"]
    IN  IF trade.trade_type = "BUY"
        THEN IF Truthy(stopLoss) /\ low <= stopLoss THEN sl
             ELSE IF Truthy(takeProfit) /\ high >= takeProfit THEN tp
             ELSE keep
        ELSE IF Truthy(stopLoss) /\ high >= stopLoss THEN sl
             ELSE IF Truthy(takeProfit) /\ low <= takeProfit THEN tp
             ELSE keep

(* Faulty variant of StorePnl: a SELL is settled like a BUY *)
StorePnlOneSided(trade_type, entryPrice, exitPrice, positionSize) ==
    (exitPrice - entryPrice) * positionSize

(* pnl of an automatic close *)
StorePnl(trade_type, entryPrice, exitPrice, positionSize) ==
    IF trade_type = "BUY"
    THEN (exitPrice - entryPrice) * positionSize
    ELSE (entryPrice - exitPrice) * positionSize

(* The forEach over state.openTrades, from its i-th element on; acc holds
   updatedOpenTrades, updatedClosedTrades and updatedBalance *)
RECURSIVE SLTPForEach(_, _, _, _, _)
SLTPForEach(stateOpen, i, acc, high, low) ==
    IF i > Len(stateOpen) THEN acc
    ELSE LET trade == stateOpen[i]
             d     == SLTPDecision(trade, high, low)
             pnl   == StorePnl(trade.trade_type, trade.entry_price,
                               d.exitPrice, trade.position_size)
             next  == IF d.shouldClose /\ Truthy(d.exitPrice)
                      THEN [openTrades   |-> SelectSeq(acc.openTrades, LAMBDA t : t.id # trade.id),
                            closedTrades |-> Append(acc.closedTrades,
                                                [trade EXCEPT !.exit_price = d.exitPrice,
                                                              !.pnl = pnl,
                                                              !.status = "closed",
                                                              !.exit_reason = d.exitReason]),
                            balance      |-> acc.balance + pnl]
                      ELSE acc
         IN  SLTPForEach(stateOpen, i + 1, next, high, low)

(* parseFloat(currentCandle.high || currentCandle.runningHigh || 0) *)
WindowValue(x) == IF Truthy(x) THEN x ELSE 0

(* checkAndExecuteSLTP(currentCandle); currentCandle is <<>> for null and
   <<c>> for a candle c *)
checkAndExecuteSLTP(open, closed, bal, currentCandle) ==
    IF currentCandle = <<>>
    THEN [openTrades |-> open, closedTrades |-> closed, balance |-> bal]
    ELSE SLTPForEach(open, 1,
                     [openTrades |-> open, closedTrades |-> closed, balance |-> bal],
                     WindowValue(currentCandle[1].high),
                     WindowValue(currentCandle[1].low))

----------------------------------------------------------------------------
(* Store: replay cursor *)

(* candlesWithTicks[i], defined when the index is in range *)
HasCandle(series, i) == i >= 0 /\ i < Len(series)

(* advanceCandle: clamps at the last index of state.candles *)
advanceCandle(basic, candleIndex) == Min(candleIndex + 1, Len(basic) - 1)

(* Faulty variant of advanceTick: the tick index is kept when the cursor
   moves to the next candle *)
advanceTickKeepsTick(series, candleIndex, tickIndex) ==
    LET same == [currentCandleIndex |-> candleIndex, currentTickIndex |-> tickIndex]
    IN  IF Len(series) = 0 THEN same
        ELSE IF ~HasCandle(series, candleIndex) THEN same
        ELSE LET tickCount == Len(series[candleIndex + 1].ticks)
             IN  IF tickCount > 0 /\ tickIndex < tickCount - 1
                 THEN [currentCandleIndex |-> candleIndex, currentTickIndex |-> tickIndex + 1]
                 ELSE IF candleIndex < Len(series) - 1
                 THEN [currentCandleIndex |-> candleIndex + 1, currentTickIndex |-> tickIndex]
                 ELSE same

(* advanceTick *)
advanceTick(series, candleIndex, tickIndex) ==
    LET same == [currentCandleIndex |-> candleIndex, currentTickIndex |-> tickIndex]
    IN  IF Len(series) = 0 THEN same
        ELSE IF ~HasCandle(series, candleIndex) THEN same
        ELSE LET tickCount == Len(series[candleIndex + 1].ticks)
             IN  IF tickCount > 0 /\ tickIndex < tickCount - 1
                 THEN [currentCandleIndex |-> candleIndex, currentTickIndex |-> tickIndex + 1]
                 ELSE IF candleIndex < Len(series) - 1
                 THEN [currentCandleIndex |-> candleIndex + 1, currentTickIndex |-> 0]
                 ELSE same

(* The full candle, as getCurrentFormingCandle returns it *)
FullCandle(c) ==
    [open |-> c.open, high |-> c.high, low |-> c.low, close |-> c.close,
     isComplete |-> TRUE]

(* Faulty variant of getCurrentFormingCandle: the ticks are ignored and the
   finished candle is returned *)
getCurrentFormingCandleFinished(series, candleIndex, tickIndex, progressive) ==
    IF Len(series) = 0 THEN <<>>
    ELSE IF ~HasCandle(series, candleIndex) THEN <<>>
    ELSE <<FullCandle(series[candleIndex + 1])>>

(* Faulty variant of getCurrentFormingCandle: in progressive mode the window
   runs one tick ahead of the cursor *)
getCurrentFormingCandleAhead(series, candleIndex, tickIndex, progressive) ==
    IF Len(series) = 0 THEN <<>>
    ELSE IF ~HasCandle(series, candleIndex) THEN <<>>
    ELSE LET currentCandle == series[candleIndex + 1]
         IN  IF ~progressive \/ Len(currentCandle.ticks) = 0
             THEN <<FullCandle(currentCandle)>>
             ELSE IF ~(tickIndex + 1 >= 0 /\ tickIndex + 1 < Len(currentCandle.ticks))
             THEN <<FullCandle(currentCandle)>>
             ELSE LET currentTick == currentCandle.ticks[tickIndex + 2]
                  IN  <<[open       |-> currentTick.runningOpen,
                         high       |-> currentTick.runningHigh,
                         low        |-> currentTick.runningLow,
                         close      |-> currentTick.runningClose,
                         isComplete |-> currentTick.isFinalTick]>>

(* getCurrentFormingCandle: <<>> for null *)
getCurrentFormingCandle(series, candleIndex, tickIndex, progressive) ==
    IF Len(series) = 0 THEN <<>>
    ELSE IF ~HasCandle(series, candleIndex) THEN <<>>
    ELSE LET currentCandle == series[candleIndex + 1]
         IN  IF ~progressive \/ Len(currentCandle.ticks) = 0
             THEN <<FullCandle(currentCandle)>>
             ELSE IF ~(tickIndex >= 0 /\ tickIndex < Len(currentCandle.ticks))
             THEN <<FullCandle(currentCandle)>>
             ELSE LET currentTick == currentCandle.ticks[tickIndex + 1]
                  IN  <<[open       |-> currentTick.runningOpen,
                         high       |-> currentTick.runningHigh,
                         low        |-> currentTick.runningLow,
                         close      |-> currentTick.runningClose,
                         isComplete |-> currentTick.isFinalTick]>>

(* Array.prototype.slice(0, end): a negative end counts from the end of the
   array *)
SliceTo(array, end) ==
    LET stop == IF end < 0 THEN (IF Len(array) + end < 0 THEN 0 ELSE Len(array) + end)
                ELSE Min(end, Len(array))
    IN  SubSeq(array, 1, stop)

(* A bar of the chart: getVisibleCandles copies the OHLC of a candle *)
Bar(o, h, l, c) == [open |-> o, high |-> h, low |-> l, close |-> c]

(* getVisibleCandles: the candles before the cursor, then the forming one *)
getVisibleCandles(series, candleIndex, tickIndex, progressive) ==
    IF Len(series) = 0 THEN <<>>
    ELSE LET before == SliceTo(series, candleIndex)
             completedCandles ==
                 [i \in 1..Len(before) |->
                     Bar(before[i].open, before[i].high, before[i].low, before[i].close)]
         IN  IF ~HasCandle(series, candleIndex) THEN completedCandles
             ELSE LET currentCandle == series[candleIndex + 1]
                      full == Bar(currentCandle.open, currentCandle.high,
                                  currentCandle.low, currentCandle.close)
                  IN  IF ~progressive \/ Len(currentCandle.ticks) = 0
                      THEN Append(completedCandles, full)
                      ELSE IF tickIndex >= 0 /\ tickIndex < Len(currentCandle.ticks)
                      THEN LET currentTick == currentCandle.ticks[tickIndex + 1]
                           IN  Append(completedCandles,
                                      Bar(currentTick.runningOpen, currentTick.runningHigh,
                                          currentTick.runningLow, currentTick.runningClose))
                      ELSE Append(completedCandles, full)

(* setCandlesWithTicks: the cursor restored from the saved indices, clamped to
   the series *)
setCandlesWithTicks(series, savedIndex, savedTickIndex) ==
    LET validCandleIndex == Min(savedIndex, Len(series) - 1)
        tickCount == IF HasCandle(series, validCandleIndex)
                     THEN Len(series[validCandleIndex + 1].ticks)
                     ELSE 0
    IN  [currentCandleIndex |-> validCandleIndex,
         currentTickIndex   |-> IF tickCount > 0
                                THEN Min(savedTickIndex, tickCount - 1)
                                ELSE 0]

(* TradingDashboard: currentPrice = formingCandle?.close || 0, which the
   panels read as safePrice = Number(currentPrice) || 0 *)
safePrice ==
    LET formingCandle == getCurrentFormingCandle(candlesWithTicks, currentCandleIndex,
                                                 currentTickIndex, progressiveMode)
    IN  IF formingCandle = <<>> THEN 0 ELSE WindowValue(formingCandle[1].close)

(* TradingDashboard.hasTickData: candlesData.some(c => c.ticks && c.ticks.length > 0) *)
hasTickData == \E i \in 1..Len(candlesWithTicks) : Len(candlesWithTicks[i].ticks) > 0

----------------------------------------------------------------------------
(* The state once a session has been started, loadCandles has run and Play
   has been pressed: with tick data only candlesWithTicks is filled, without
   it both series are *)

Init ==
    /\ \E withTicks \in BOOLEAN :
          /\ candlesWithTicks = IF withTicks THEN MarketSeries(MaxCandles)
                                ELSE WithoutTicks(MarketSeries(MaxCandles))
          /\ candles = IF withTicks THEN <<>> ELSE WithoutTicks(MarketSeries(MaxCandles))
    /\ currentCandleIndex = 0
    /\ currentTickIndex = 0
    /\ progressiveMode \in BOOLEAN
    /\ openTrades = <<>>
    /\ closedTrades = <<>>
    /\ balance = DefaultBalance
    /\ trades = <<>>
    /\ inflight = <<>>
    /\ isPlaying = TRUE
    /\ savedState = <<>>
    /\ call = <<>>

----------------------------------------------------------------------------
(* Handlers *)

(* OrderPanel.handleTrade: returns when there is no price; otherwise
   POST /trades/open at the current price, then addOpenTrade(response.data).
   The size and the side are sent as entered. *)
handleTrade(tradeType, positionSize, stopLoss, takeProfit) ==
    /\ safePrice # 0
    /\ LET r == PostOpen(trades, tradeType, safePrice, positionSize, stopLoss, takeProfit)
       IN  /\ trades' = r.table
           /\ openTrades' = addOpenTrade(openTrades, r.data)
    /\ UNCHANGED <<isPlaying, savedState, seriesVars, cursorVars, progressiveMode, closedTrades, balance, inflight>>

HandleTrade(order) ==
    /\ Cardinality(DOMAIN trades) < MaxTrades
    /\ handleTrade(order[1], 1, order[2], order[3])
    /\ UNCHANGED call

(* Close requests sent so far: those awaiting their response and those whose
   response closeTrade has recorded *)
CloseRequests ==
    Len(inflight) + Len(SelectSeq(closedTrades, LAMBDA t : t.exit_reason = "undefined"))

(* PositionsList.handleClose up to its await: PUT /trades/:id/close at the
   current price for a trade shown as open *)
HandleCloseRequest(i) ==
    /\ i \in 1..Len(openTrades)
    /\ CloseRequests < MaxCloses
    /\ LET r == PutClose(trades, openTrades[i].id, safePrice)
       IN  /\ trades' = r.table
           /\ inflight' = IF r.status = 200
                          THEN Append(inflight, [id |-> openTrades[i].id, pnl |-> r.data.pnl])
                          ELSE inflight
    /\ UNCHANGED <<isPlaying, savedState, seriesVars, cursorVars, progressiveMode, ledgerVars, call>>

(* PositionsList.handleClose after its await: closeTrade(trade.id, response.data.pnl) *)
HandleCloseResponse(k) ==
    /\ k \in 1..Len(inflight)
    /\ LET r == closeTrade(openTrades, closedTrades, balance, inflight[k].id, inflight[k].pnl)
       IN  /\ openTrades' = r.openTrades
           /\ closedTrades' = r.closedTrades
           /\ balance' = r.balance
    /\ inflight' = [j \in 1..(Len(inflight) - 1) |->
                       IF j < k THEN inflight[j] ELSE inflight[j + 1]]
    /\ UNCHANGED <<isPlaying, savedState, seriesVars, cursorVars, progressiveMode, trades, call>>

(* Faulty variant of EvaluateForming: the positions are evaluated against the
   window the cursor moves to *)
EvaluateFormingAfterAdvance ==
    LET next == IF progressiveMode
                THEN advanceTick(candlesWithTicks, currentCandleIndex, currentTickIndex)
                ELSE [currentCandleIndex |-> advanceCandle(candles, currentCandleIndex),
                      currentTickIndex   |-> currentTickIndex]
        formingCandle == getCurrentFormingCandle(candlesWithTicks, next.currentCandleIndex,
                                                 next.currentTickIndex, progressiveMode)
        r == checkAndExecuteSLTP(openTrades, closedTrades, balance, formingCandle)
    IN  /\ openTrades' = r.openTrades
        /\ closedTrades' = r.closedTrades
        /\ balance' = r.balance

(* The evaluation every replay step starts with: the forming candle, when
   there is one, is passed to checkAndExecuteSLTP *)
EvaluateForming ==
    LET formingCandle == getCurrentFormingCandle(candlesWithTicks, currentCandleIndex,
                                                 currentTickIndex, progressiveMode)
        r == checkAndExecuteSLTP(openTrades, closedTrades, balance, formingCandle)
    IN  /\ openTrades' = r.openTrades
        /\ closedTrades' = r.closedTrades
        /\ balance' = r.balance

(* ReplayControls: one firing of the autoplay interval, which runs while
   isPlaying *)
autoplayEffect ==
    /\ isPlaying
    /\ EvaluateForming
    /\ IF progressiveMode
       THEN LET c == advanceTick(candlesWithTicks, currentCandleIndex, currentTickIndex)
            IN  /\ currentCandleIndex' = c.currentCandleIndex
                /\ currentTickIndex' = c.currentTickIndex
       ELSE /\ currentCandleIndex' = advanceCandle(candles, currentCandleIndex)
            /\ currentTickIndex' = currentTickIndex
    /\ UNCHANGED <<isPlaying, savedState, seriesVars, progressiveMode, trades, inflight>>

AutoplayStep == autoplayEffect /\ UNCHANGED call

(* ReplayControls.handleSkipTick; the button is rendered in progressive mode
   on a candle that has ticks *)
handleSkipTick ==
    /\ progressiveMode
    /\ HasCandle(candlesWithTicks, currentCandleIndex)
    /\ Len(candlesWithTicks[currentCandleIndex + 1].ticks) > 0
    /\ EvaluateForming
    /\ LET c == advanceTick(candlesWithTicks, currentCandleIndex, currentTickIndex)
       IN  /\ currentCandleIndex' = c.currentCandleIndex
           /\ currentTickIndex' = c.currentTickIndex
    /\ UNCHANGED <<isPlaying, savedState, seriesVars, progressiveMode, trades, inflight>>

HandleSkipTick == handleSkipTick /\ UNCHANGED call

(* advanceTick called n times in a row *)
RECURSIVE AdvanceTicks(_, _, _, _)
AdvanceTicks(series, candleIndex, tickIndex, n) ==
    IF n <= 0
    THEN [currentCandleIndex |-> candleIndex, currentTickIndex |-> tickIndex]
    ELSE LET c == advanceTick(series, candleIndex, tickIndex)
         IN  AdvanceTicks(series, c.currentCandleIndex, c.currentTickIndex, n - 1)

(* Faulty variant of skippedCandle: only the body of the candle (open to
   close) is evaluated *)
skippedCandleBody(series, candleIndex) ==
    IF HasCandle(series, candleIndex)
    THEN LET currentCandle == series[candleIndex + 1]
         IN  <<[high  |-> IF currentCandle.open >= currentCandle.close
                          THEN currentCandle.open ELSE currentCandle.close,
                low   |-> Min(currentCandle.open, currentCandle.close),
                close |-> currentCandle.close]>>
    ELSE <<>>

(* handleSkipCandle: the window it evaluates before the cursor leaves the
   candle, the full range of candlesWithTicks[currentCandleIndex]; <<>> when
   there is no such candle *)
skippedCandle(series, candleIndex) ==
    IF HasCandle(series, candleIndex)
    THEN LET currentCandle == series[candleIndex + 1]
         IN  <<[high |-> currentCandle.high, low |-> currentCandle.low,
                close |-> currentCandle.close]>>
    ELSE <<>>

(* ReplayControls.handleSkipCandle *)
handleSkipCandle ==
    /\ LET r == checkAndExecuteSLTP(openTrades, closedTrades, balance,
                                    skippedCandle(candlesWithTicks, currentCandleIndex))
       IN  /\ openTrades' = r.openTrades
           /\ closedTrades' = r.closedTrades
           /\ balance' = r.balance
    /\ IF progressiveMode
       THEN LET tickCount == IF HasCandle(candlesWithTicks, currentCandleIndex)
                             THEN Len(candlesWithTicks[currentCandleIndex + 1].ticks)
                             ELSE 0
                ticksRemaining == (IF tickCount > 0 THEN tickCount ELSE 1)
                                  - currentTickIndex - 1
                c == AdvanceTicks(candlesWithTicks, currentCandleIndex,
                                  currentTickIndex, ticksRemaining + 1)
            IN  /\ currentCandleIndex' = c.currentCandleIndex
                /\ currentTickIndex' = c.currentTickIndex
       ELSE /\ currentCandleIndex' = advanceCandle(candles, currentCandleIndex)
            /\ currentTickIndex' = currentTickIndex
    /\ UNCHANGED <<isPlaying, savedState, seriesVars, progressiveMode, trades, inflight>>

HandleSkipCandle == handleSkipCandle /\ UNCHANGED call

(* TradingDashboard mode toggle, shown when the series has tick data:
   setProgressiveMode(!progressiveMode) *)
SetProgressiveMode ==
    /\ hasTickData
    /\ progressiveMode' = ~progressiveMode
    /\ UNCHANGED <<isPlaying, savedState, seriesVars, cursorVars, ledgerVars, trades, inflight, call>>

Next ==
    \/ \E order \in OrderChoices : HandleTrade(order)
    \/ \E i \in 1..MaxTrades : HandleCloseRequest(i)
    \/ \E k \in 1..MaxCloses : HandleCloseResponse(k)
    \/ AutoplayStep
    \/ HandleSkipTick
    \/ HandleSkipCandle
    \/ SetProgressiveMode

Spec == Init /\ [][Next]_vars

----------------------------------------------------------------------------
(* Autoplay.  SpecPlay is a session in which the replay is paused at first
   and the Play / Pause button is part of the behaviour.  While isPlaying
   holds, the interval of the autoplay effect keeps firing: the firing is
   weakly fair. *)

(* ReplayControls Play / Pause button: setIsPlaying(!isPlaying) *)
SetIsPlaying ==
    /\ isPlaying' = ~isPlaying
    /\ UNCHANGED <<seriesVars, cursorVars, progressiveMode, ledgerVars, trades,
                   inflight, savedState, call>>

InitPlay ==
    /\ \E withTicks \in BOOLEAN :
          /\ candlesWithTicks = IF withTicks THEN MarketSeries(MaxCandles)
                                ELSE WithoutTicks(MarketSeries(MaxCandles))
          /\ candles = IF withTicks THEN <<>> ELSE WithoutTicks(MarketSeries(MaxCandles))
    /\ currentCandleIndex = 0
    /\ currentTickIndex = 0
    /\ progressiveMode \in BOOLEAN
    /\ openTrades = <<>>
    /\ closedTrades = <<>>
    /\ balance = DefaultBalance
    /\ trades = <<>>
    /\ inflight = <<>>
    /\ isPlaying = FALSE
    /\ savedState = <<>>
    /\ call = <<>>

NextPlay ==
    \/ SetIsPlaying
    \/ AutoplayStep
    \/ \E order \in OrderChoices : HandleTrade(order)
    \/ SetProgressiveMode

SpecPlay == InitPlay /\ [][NextPlay]_vars /\ WF_vars(AutoplayStep)

----------------------------------------------------------------------------
(* Single operations.  SpecOps applies one operation of the store or one
   request of the trade routes to the state a short session has left: a
   first position drawn from every side, entry price, size and levels, and
   optionally a second one: an order of OrderChoices still open, or a
   position closed by hand (other[4] is the price it was closed at). *)

OtherChoices ==
    {<<>>} \cup {<<o[1], o[2], o[3], NULL>> : o \in OrderChoices}
           \cup {<<"BUY", NULL, NULL, MaxPrice>>}

InitOps ==
    /\ candlesWithTicks = MarketSeries(MaxCandles)
    /\ candles = <<>>
    /\ currentCandleIndex = 0
    /\ currentTickIndex = 0
    /\ progressiveMode = TRUE
    /\ inflight = <<>>
    /\ isPlaying = FALSE
    /\ savedState = <<>>
    /\ call = <<>>
    /\ \E tradeType \in Sides, entryPrice \in Prices, positionSize \in Sizes,
          stopLoss \in Levels, takeProfit \in Levels, other \in OtherChoices :
          LET r1    == PostOpen(<<>>, tradeType, entryPrice, positionSize,
                                stopLoss, takeProfit)
              open1 == addOpenTrade(<<>>, r1.data)
          IN  IF other = <<>>
              THEN /\ trades = r1.table
                   /\ openTrades = open1
                   /\ closedTrades = <<>>
                   /\ balance = DefaultBalance
              ELSE LET r2    == PostOpen(r1.table, other[1], MarketCandle(0).open, 1,
                                         other[2], other[3])
                       open2 == addOpenTrade(open1, r2.data)
                       p     == PutClose(r2.table, r2.data.id, other[4])
                       c     == closeTrade(open2, <<>>, DefaultBalance,
                                           r2.data.id, p.data.pnl)
                   IN  IF other[4] = NULL
                       THEN /\ trades = r2.table
                            /\ openTrades = open2
                            /\ closedTrades = <<>>
                            /\ balance = DefaultBalance
                       ELSE /\ trades = p.table
                            /\ openTrades = c.openTrades
                            /\ closedTrades = c.closedTrades
                            /\ balance = c.balance

(* The record of the operation applied: its name, its arguments, the status
   of its response (0 for a store operation), the value it returned (<<>>
   when it returns none) and the state it was applied to *)
Returned(op, args, status, result) ==
    <<[op |-> op, args |-> args, status |-> status, result |-> result,
       before |-> [openTrades |-> openTrades, closedTrades |-> closedTrades,
                   balance |-> balance, trades |-> trades,
                   currentCandleIndex |-> currentCandleIndex,
                   currentTickIndex |-> currentTickIndex,
                   progressiveMode |-> progressiveMode]]>>

Called(op, args, status) == Returned(op, args, status, <<>>)

(* store.checkAndExecuteSLTP({high, low}) *)
OpCheckAndExecuteSLTP(high, low) ==
    /\ call = <<>>
    /\ low <= high
    /\ LET r == checkAndExecuteSLTP(openTrades, closedTrades, balance,
                                    <<[high |-> high, low |-> low]>>)
       IN  /\ openTrades' = r.openTrades
           /\ closedTrades' = r.closedTrades
           /\ balance' = r.balance
    /\ call' = Called("checkAndExecuteSLTP", <<high, low>>, 0)
    /\ UNCHANGED <<isPlaying, savedState, seriesVars, cursorVars, progressiveMode, trades, inflight>>

(* store.closeTrade(tradeId, pnl) *)
OpCloseTrade(tradeId, pnl) ==
    /\ call = <<>>
    /\ LET r == closeTrade(openTrades, closedTrades, balance, tradeId, pnl)
       IN  /\ openTrades' = r.openTrades
           /\ closedTrades' = r.closedTrades
           /\ balance' = r.balance
    /\ call' = Called("closeTrade", <<tradeId, pnl>>, 0)
    /\ UNCHANGED <<isPlaying, savedState, seriesVars, cursorVars, progressiveMode, trades, inflight>>

(* PUT /trades/:id/close {exitPrice} *)
OpPutClose(id, exitPrice) ==
    /\ call = <<>>
    /\ LET r == PutClose(trades, id, exitPrice)
       IN  /\ trades' = r.table
           /\ call' = Called("PUT /:id/close", <<id, exitPrice>>, r.status)
    /\ UNCHANGED <<isPlaying, savedState, seriesVars, cursorVars, progressiveMode, ledgerVars, inflight>>

(* POST /trades/open {tradeType, entryPrice, positionSize} *)
OpPostOpen(tradeType, entryPrice, positionSize) ==
    /\ call = <<>>
    /\ LET r == PostOpen(trades, tradeType, entryPrice, positionSize, NULL, NULL)
       IN  /\ trades' = r.table
           /\ call' = Called("POST /open", <<tradeType, entryPrice, positionSize>>, r.status)
    /\ UNCHANGED <<isPlaying, savedState, seriesVars, cursorVars, progressiveMode, ledgerVars, inflight>>

(* OrderPanel.handleTrade with the size field as entered *)
OpHandleTrade(tradeType, positionSize) ==
    /\ call = <<>>
    /\ handleTrade(tradeType, positionSize, NULL, NULL)
    /\ call' = Called("handleTrade", <<tradeType, safePrice, positionSize>>, 0)

(* store.addOpenTrade(trade) *)
OpAddOpenTrade(tradeType) ==
    /\ call = <<>>
    /\ openTrades' = addOpenTrade(openTrades,
                         NewRow(Cardinality(DOMAIN trades) + 1, tradeType,
                                MarketCandle(0).open, 1, NULL, NULL))
    /\ call' = Called("addOpenTrade", <<tradeType>>, 0)
    /\ UNCHANGED <<isPlaying, savedState, seriesVars, cursorVars, progressiveMode, closedTrades, balance,
                   trades, inflight>>

(* store.advanceTick() *)
OpAdvanceTick ==
    /\ call = <<>>
    /\ LET c == advanceTick(candlesWithTicks, currentCandleIndex, currentTickIndex)
       IN  /\ currentCandleIndex' = c.currentCandleIndex
           /\ currentTickIndex' = c.currentTickIndex
    /\ call' = Called("advanceTick", <<>>, 0)
    /\ UNCHANGED <<isPlaying, savedState, seriesVars, progressiveMode, ledgerVars, trades, inflight>>

(* store.advanceCandle() *)
OpAdvanceCandle ==
    /\ call = <<>>
    /\ currentCandleIndex' = advanceCandle(candles, currentCandleIndex)
    /\ call' = Called("advanceCandle", <<>>, 0)
    /\ UNCHANGED <<isPlaying, savedState, seriesVars, currentTickIndex, progressiveMode, ledgerVars,
                   trades, inflight>>

(* store.setCandlesWithTicks(series), with the indices last saved *)
OpSetCandlesWithTicks(withTicks, savedIndex, savedTickIndex) ==
    /\ call = <<>>
    /\ LET series == IF withTicks THEN MarketSeries(MaxCandles)
                     ELSE WithoutTicks(MarketSeries(MaxCandles))
           c == setCandlesWithTicks(series, savedIndex, savedTickIndex)
       IN  /\ candlesWithTicks' = series
           /\ currentCandleIndex' = c.currentCandleIndex
           /\ currentTickIndex' = c.currentTickIndex
    /\ call' = Called("setCandlesWithTicks", <<savedIndex, savedTickIndex>>, 0)
    /\ UNCHANGED <<isPlaying, savedState, candles, progressiveMode, ledgerVars, trades, inflight>>

(* store.setProgressiveMode(mode) *)
OpSetProgressiveMode(mode) ==
    /\ call = <<>>
    /\ progressiveMode' = mode
    /\ call' = Called("setProgressiveMode", <<mode>>, 0)
    /\ UNCHANGED <<isPlaying, savedState, seriesVars, cursorVars, ledgerVars, trades, inflight>>

NextOps ==
    \/ \E high \in Prices, low \in Prices : OpCheckAndExecuteSLTP(high, low)
    \/ \E tradeId \in 1..3, pnl \in {-1, 1} : OpCloseTrade(tradeId, pnl)
    \/ \E id \in 1..3, exitPrice \in Prices : OpPutClose(id, exitPrice)
    \/ \E tradeType \in BodySides, entryPrice \in BodyNumbers,
          positionSize \in BodyNumbers : OpPostOpen(tradeType, entryPrice, positionSize)
    \/ \E tradeType \in BodySides, positionSize \in BodyNumbers :
          OpHandleTrade(tradeType, positionSize)
    \/ \E tradeType \in Sides : OpAddOpenTrade(tradeType)
    \/ OpAdvanceTick
    \/ OpAdvanceCandle
    \/ \E withTicks \in BOOLEAN, saved \in {<<0, 0>>, <<MaxCandles, 1>>} :
          OpSetCandlesWithTicks(withTicks, saved[1], saved[2])
    \/ \E mode \in BOOLEAN : OpSetProgressiveMode(mode)

SpecOps == InitOps /\ [][NextOps]_vars

----------------------------------------------------------------------------
(* Single replay operations.  SpecReplay applies one operation of the replay
   (a store function, a getter or a handler of ReplayControls) to a session
   whose cursor is anywhere in the series, in either mode, with up to
   MaxTrades positions open. *)

(* The backend table and the open set after the orders have been placed at
   the first price of the series *)
RECURSIVE Opened(_)
Opened(orders) ==
    IF orders = <<>> THEN [table |-> <<>>, openTrades |-> <<>>]
    ELSE LET sofar == Opened(SubSeq(orders, 1, Len(orders) - 1))
             order == orders[Len(orders)]
             r     == PostOpen(sofar.table, order[1], MarketCandle(0).open, 1,
                               order[2], order[3])
         IN  [table |-> r.table, openTrades |-> addOpenTrade(sofar.openTrades, r.data)]

OrderSequences ==
    UNION {[1..n -> OrderChoices] : n \in 0..MaxTrades}

InitReplay ==
    /\ \E withTicks \in BOOLEAN :
          /\ candlesWithTicks = IF withTicks THEN MarketSeries(MaxCandles)
                                ELSE WithoutTicks(MarketSeries(MaxCandles))
          /\ candles = IF withTicks THEN <<>> ELSE WithoutTicks(MarketSeries(MaxCandles))
    /\ currentCandleIndex \in 0..(MaxCandles - 1)
    /\ currentTickIndex \in 0..Max0(Len(candlesWithTicks[currentCandleIndex + 1].ticks) - 1)
    /\ progressiveMode \in BOOLEAN
    /\ \E orders \in OrderSequences :
          /\ trades = Opened(orders).table
          /\ openTrades = Opened(orders).openTrades
    /\ closedTrades = <<>>
    /\ balance = DefaultBalance
    /\ inflight = <<>>
    /\ isPlaying = TRUE
    /\ savedState = <<>>
    /\ call = <<>>

(* One firing of the autoplay interval *)
OpAutoplay ==
    /\ call = <<>>
    /\ autoplayEffect
    /\ call' = Called("autoplay", <<>>, 0)

(* handleSkipTick *)
OpSkipTick ==
    /\ call = <<>>
    /\ handleSkipTick
    /\ call' = Called("handleSkipTick", <<>>, 0)

(* handleSkipCandle *)
OpSkipCandle ==
    /\ call = <<>>
    /\ handleSkipCandle
    /\ call' = Called("handleSkipCandle", <<>>, 0)

(* store.getCurrentFormingCandle() *)
OpGetCurrentFormingCandle ==
    /\ call = <<>>
    /\ call' = Returned("getCurrentFormingCandle", <<>>, 0,
                        getCurrentFormingCandle(candlesWithTicks, currentCandleIndex,
                                                currentTickIndex, progressiveMode))
    /\ UNCHANGED <<isPlaying, savedState, seriesVars, cursorVars, progressiveMode, ledgerVars, trades, inflight>>

(* store.getVisibleCandles() *)
OpGetVisibleCandles ==
    /\ call = <<>>
    /\ call' = Returned("getVisibleCandles", <<>>, 0,
                        getVisibleCandles(candlesWithTicks, currentCandleIndex,
                                          currentTickIndex, progressiveMode))
    /\ UNCHANGED <<isPlaying, savedState, seriesVars, cursorVars, progressiveMode, ledgerVars, trades, inflight>>

(* OrderPanel.handleTrade at the cursor the session is at *)
OpHandleTradeAtCursor(order) ==
    /\ call = <<>>
    /\ Cardinality(DOMAIN trades) < MaxTrades
    /\ handleTrade(order[1], 1, order[2], order[3])
    /\ call' = Called("handleTrade", order, 0)

(* The replay step that follows the order: a firing of the autoplay interval
   or a click on the skip-tick button *)
OpStepAfterTrade ==
    /\ Len(call) = 1
    /\ call[1].op = "handleTrade"
    /\ \/ autoplayEffect /\ call' = call \o Called("autoplay", <<>>, 0)
       \/ handleSkipTick /\ call' = call \o Called("handleSkipTick", <<>>, 0)

NextReplay ==
    \/ \E order \in OrderChoices : OpHandleTradeAtCursor(order)
    \/ OpStepAfterTrade
    \/ OpAdvanceTick
    \/ OpAdvanceCandle
    \/ OpAutoplay
    \/ OpSkipTick
    \/ OpSkipCandle
    \/ OpGetCurrentFormingCandle
    \/ OpGetVisibleCandles

SpecReplay == InitReplay /\ [][NextReplay]_vars

----------------------------------------------------------------------------
(* Session start.  SpecSession begins when the page has been loaded: the
   module constant savedState holds what loadSessionState() returned, null
   (<<>>) or the state a session saved less than a day ago, and the store is
   created from it.  The user then resumes the saved session or starts a new
   one, and the dashboard loads the series.  call lists the handlers that
   have run. *)

(* The states saveSessionState may have stored: the cursor anywhere in a
   series, either mode, up to MaxTrades positions open *)
SavedCursors ==
    UNION {{<<c, t>> : t \in 0..Max0(Len(MarketCandle(c).ticks) - 1)} :
              c \in 0..(MaxCandles - 1)}

InitSession ==
    /\ candlesWithTicks = <<>>
    /\ candles = <<>>
    /\ inflight = <<>>
    /\ isPlaying = FALSE
    /\ call = <<>>
    /\ \/ /\ savedState = <<>>
          /\ currentCandleIndex = 0
          /\ currentTickIndex = 0
          /\ progressiveMode = TRUE
          /\ openTrades = <<>>
          /\ closedTrades = <<>>
          /\ balance = DefaultBalance
          /\ trades = <<>>
       \/ \E cursor \in SavedCursors, mode \in BOOLEAN, orders \in OrderSequences :
             /\ savedState = <<[currentCandleIndex |-> cursor[1],
                                currentTickIndex   |-> cursor[2],
                                progressiveMode    |-> mode,
                                openTrades         |-> Opened(orders).openTrades,
                                closedTrades       |-> <<>>,
                                balance            |-> DefaultBalance]>>
             /\ currentCandleIndex = savedState[1].currentCandleIndex
             /\ currentTickIndex = savedState[1].currentTickIndex
             /\ progressiveMode = savedState[1].progressiveMode
             /\ openTrades = savedState[1].openTrades
             /\ closedTrades = savedState[1].closedTrades
             /\ balance = IF Truthy(savedState[1].balance) THEN savedState[1].balance
                          ELSE DefaultBalance
             /\ trades = Opened(orders).table

(* The handler that ran last *)
LastOp == IF call = <<>> THEN "" ELSE call[Len(call)].op

(* store.clearSession() *)
clearSession ==
    /\ candles' = <<>>
    /\ candlesWithTicks' = <<>>
    /\ openTrades' = <<>>
    /\ closedTrades' = <<>>
    /\ balance' = DefaultBalance
    /\ currentCandleIndex' = 0
    /\ currentTickIndex' = 0
    /\ isPlaying' = FALSE
    /\ UNCHANGED <<progressiveMode, trades, inflight, savedState>>

(* App.handleNewSession, offered by the resume prompt *)
OpHandleNewSession ==
    /\ call = <<>>
    /\ savedState # <<>>
    /\ clearSession
    /\ call' = Called("handleNewSession", <<>>, 0)

(* App.handleResumeSession, offered by the resume prompt *)
OpHandleResumeSession ==
    /\ call = <<>>
    /\ savedState # <<>>
    /\ call' = Called("handleResumeSession", <<>>, 0)
    /\ UNCHANGED <<isPlaying, savedState, seriesVars, cursorVars, progressiveMode,
                   ledgerVars, trades, inflight>>

(* SessionSetup.handleSubmit, shown when there is no saved session or after
   New Session: setSession, setBalance(initialBalance),
   setProgressiveMode(formData.progressiveMode) *)
OpHandleSubmit(mode) ==
    /\ \/ call = <<>> /\ savedState = <<>>
       \/ LastOp = "handleNewSession"
    /\ balance' = DefaultBalance
    /\ progressiveMode' = mode
    /\ call' = call \o Called("handleSubmit", <<mode>>, 200)
    /\ UNCHANGED <<isPlaying, savedState, seriesVars, cursorVars, openTrades,
                   closedTrades, trades, inflight>>

(* savedState?.currentCandleIndex || 0 and savedState?.currentTickIndex || 0 *)
SavedIndex == IF savedState = <<>> THEN 0 ELSE WindowValue(savedState[1].currentCandleIndex)
SavedTickIndex == IF savedState = <<>> THEN 0 ELSE WindowValue(savedState[1].currentTickIndex)

(* TradingDashboard.loadCandles, run when the dashboard is mounted: with
   tick data setCandlesWithTicks(candlesData); without, setCandles(candles)
   and then setCandlesWithTicks of the candles with empty ticks *)
OpLoadCandles(withTicks) ==
    /\ LastOp \in {"handleSubmit", "handleResumeSession"}
    /\ LET series == IF withTicks THEN MarketSeries(MaxCandles)
                     ELSE WithoutTicks(MarketSeries(MaxCandles))
           c == setCandlesWithTicks(series, SavedIndex, SavedTickIndex)
       IN  /\ candlesWithTicks' = series
           /\ candles' = IF withTicks THEN candles ELSE series
           /\ currentCandleIndex' = c.currentCandleIndex
           /\ currentTickIndex' = c.currentTickIndex
    /\ call' = call \o Called("loadCandles", <<withTicks>>, 200)
    /\ UNCHANGED <<isPlaying, savedState, progressiveMode, ledgerVars, trades, inflight>>

NextSession ==
    \/ OpHandleNewSession
    \/ OpHandleResumeSession
    \/ \E mode \in BOOLEAN : OpHandleSubmit(mode)
    \/ \E withTicks \in BOOLEAN : OpLoadCandles(withTicks)

SpecSession == InitSession /\ [][NextSession]_vars

----------------------------------------------------------------------------
(* The tick scripts: generateDetailedPricePath of fetchRealBTCData.js and of
   fetchAllAssetsData.js, applied once to a candle.

   Numbers are fixed-point. A price is a multiple of 1/PriceStep of the unit
   of Prices, a position a multiple of 1/PositionScale of the candle, the
   progress within a segment a multiple of 1/ProgressScale (truncated), and
   an outcome of Math.random() a multiple of 1/RandomScale. The outcomes of
   one run are read from a tape, draw after draw, the tape being repeated
   when it is exhausted. *)

MaxPoints == 4
TapeLen == 3

PriceStep == 500
PositionScale == 60000
ProgressScale == 100
RandomScale == 100

(* Outcomes of Math.random(): 0, 0.5 and 0.9 *)
Randoms == {0, 50, 90}
Tapes == [1..TapeLen -> Randoms]
Scripts == {"fetchRealBTCData", "fetchAllAssetsData"}

(* The k-th call of Math.random() of a run, k counted from 0 *)
Random(tape, k) == tape[(k % Len(tape)) + 1]

(* a / b truncated towards zero, b > 0 *)
Truncate(a, b) == IF a >= 0 THEN a \div b ELSE -((-a) \div b)

(* 3 + Math.floor(Math.random() * 3) *)
NumSwings(r) == 3 + ((r * 3) \div RandomScale)

(* swings.push({position: (i + 1) / (numSwings + 1) + (Math.random() - 0.5) * 0.1,
                isHigh: Math.random() > 0.5}), the draws of swing i being
   1 + 2i and 2 + 2i *)
RandomSwing(tape, numSwings, i) ==
    [position |-> ((i + 1) * PositionScale) \div (numSwings + 1)
                  + Truncate((Random(tape, 1 + 2 * i) * 2 - RandomScale) * PositionScale,
                             20 * RandomScale),
     isHigh   |-> (Random(tape, 2 + 2 * i) * 2 > RandomScale),
     price    |-> UNDEFINED]

(* The two swings pushed to make the path reach the low and the high *)
ForcedSwings(tape, numSwings, open, high, low, close) ==
    LET early == (Random(tape, 2 * numSwings + 1) * 3 * PositionScale) \div (10 * RandomScale)
        late  == (7 * PositionScale) \div 10
                 + (Random(tape, 2 * numSwings + 2) * 2 * PositionScale) \div (10 * RandomScale)
    IN  IF close >= open
        THEN <<[position |-> early, isHigh |-> FALSE, price |-> low],
               [position |-> late,  isHigh |-> TRUE,  price |-> high]>>
        ELSE <<[position |-> early, isHigh |-> TRUE,  price |-> high],
               [position |-> late,  isHigh |-> FALSE, price |-> low]>>

(* swings.sort((a, b) => a.position - b.position): a stable sort *)
RECURSIVE SortSwings(_)
SortSwings(swings) ==
    IF Len(swings) = 0 THEN <<>>
    ELSE LET n      == Len(swings)
             last   == swings[n]
             sorted == SortSwings(SubSeq(swings, 1, n - 1))
             before == SelectSeq(sorted, LAMBDA s : s.position <= last.position)
             after  == SelectSeq(sorted, LAMBDA s : s.position > last.position)
         IN  before \o <<last>> \o after

(* The sorted swings of a run *)
Swings(tape, open, high, low, close) ==
    LET numSwings == NumSwings(Random(tape, 0))
    IN  SortSwings([i \in 1..numSwings |-> RandomSwing(tape, numSwings, i - 1)]
                   \o ForcedSwings(tape, numSwings, open, high, low, close))

(* Math.random() calls of a run before the first point *)
SwingDraws(tape) == 2 * NumSwings(Random(tape, 0)) + 3

(* swings[j].isHigh ? high - Math.random() * range * 0.2
                    : low + Math.random() * range * 0.2 *)
SwingTarget(isHigh, high, low, r) ==
    IF isHigh THEN high - (r * (high - low) * 2) \div (10 * RandomScale)
    ELSE low + (r * (high - low) * 2) \div (10 * RandomScale)

(* The loop over the swings for one point, from swing j on. seg holds
   segmentStart, segmentEnd, startPrice, endPrice, whether the loop has
   left by its break, and the number of Math.random() calls so far.
   fetchAllAssetsData.js draws no target for a swing the point has passed
   and keeps startPrice there. *)
RECURSIVE FindSegment(_, _, _, _, _, _, _)
FindSegment(script, swings, tape, high, low, position, seg) ==
    IF seg.j > Len(swings) THEN seg
    ELSE LET swing  == swings[seg.j]
             priced == swing.price # UNDEFINED
             target == IF priced THEN swing.price
                       ELSE SwingTarget(swing.isHigh, high, low, Random(tape, seg.draws))
         IN  IF position <= swing.position
             THEN [seg EXCEPT !.segmentEnd = swing.position,
                              !.endPrice = target,
                              !.found = TRUE,
                              !.draws = IF priced THEN @ ELSE @ + 1]
             ELSE IF script = "fetchRealBTCData"
             THEN FindSegment(script, swings, tape, high, low, position,
                      [seg EXCEPT !.j = @ + 1,
                                  !.segmentStart = swing.position,
                                  !.startPrice = target,
                                  !.draws = IF priced THEN @ ELSE @ + 1])
             ELSE FindSegment(script, swings, tape, high, low, position,
                      [seg EXCEPT !.j = @ + 1,
                                  !.segmentStart = swing.position,
                                  !.startPrice = IF priced THEN swing.price ELSE @])

(* segmentProgress, truncated to a multiple of 1 / ProgressScale *)
SegmentProgress(position, segmentStart, segmentEnd) ==
    IF segmentEnd > segmentStart
    THEN ((position - segmentStart) * ProgressScale) \div (segmentEnd - segmentStart)
    ELSE 0

(* startPrice + (endPrice - startPrice) * smoothProgress, with
   smoothProgress = segmentProgress^2 * (3 - 2 * segmentProgress) *)
Smoothstep(startPrice, endPrice, progress) ==
    startPrice + Truncate((endPrice - startPrice) * progress * progress
                              * (3 * ProgressScale - 2 * progress),
                          ProgressScale * ProgressScale * ProgressScale)

(* (Math.random() - 0.5) * range * 0.02 *)
MicroNoise(high, low, r) ==
    Truncate((r * 2 - RandomScale) * (high - low), 100 * RandomScale)

(* Math.max(low, Math.min(high, targetPrice)) *)
Clamp(high, low, targetPrice) ==
    IF targetPrice > high THEN high ELSE IF targetPrice < low THEN low ELSE targetPrice

(* One point of the path: its price and the number of Math.random() calls
   after it *)
PathPoint(script, swings, tape, open, high, low, close, numPoints, i, prevPrice, draws) ==
    LET position  == (i * PositionScale) \div (numPoints - 1)
        seg       == FindSegment(script, swings, tape, high, low, position,
                                 [j |-> 1, segmentStart |-> 0, segmentEnd |-> PositionScale,
                                  startPrice |-> open, endPrice |-> close,
                                  found |-> FALSE, draws |-> draws])
        lastSwing == swings[Len(swings)]
        pastAll   == IF script = "fetchRealBTCData"
                     THEN position > lastSwing.position
                     ELSE ~seg.found
        segmentStart == IF pastAll THEN lastSwing.position ELSE seg.segmentStart
        segmentEnd   == IF pastAll THEN PositionScale ELSE seg.segmentEnd
        startPrice   == IF pastAll
                        THEN (IF Truthy(lastSwing.price) THEN lastSwing.price ELSE prevPrice)
                        ELSE seg.startPrice
        endPrice     == IF pastAll THEN close ELSE seg.endPrice
        targetPrice  == Smoothstep(startPrice, endPrice,
                                   SegmentProgress(position, segmentStart, segmentEnd))
                        + MicroNoise(high, low, Random(tape, seg.draws))
    IN  [price |-> Clamp(high, low, targetPrice), draws |-> seg.draws + 1]

(* The loop over the points, from point i on *)
RECURSIVE PathPoints(_, _, _, _, _, _, _, _, _, _, _)
PathPoints(script, swings, tape, open, high, low, close, numPoints, i, prevPrice, draws) ==
    IF i >= numPoints THEN <<>>
    ELSE LET point == PathPoint(script, swings, tape, open, high, low, close,
                                numPoints, i, prevPrice, draws)
         IN  <<point.price>> \o PathPoints(script, swings, tape, open, high, low, close,
                                           numPoints, i + 1, point.price, point.draws)

(* Faulty variant of generateDetailedPricePath: the first and the last point
   are left as the loop computed them *)
generateDetailedPricePathLoopOnly(script, tape, open, high, low, close, numPoints) ==
    PathPoints(script, Swings(tape, open, high, low, close), tape,
               open, high, low, close, numPoints, 0, open, SwingDraws(tape))

(* generateDetailedPricePath(open, high, low, close, numPoints), numPoints >= 2 *)
generateDetailedPricePath(script, tape, open, high, low, close, numPoints) ==
    LET points == PathPoints(script, Swings(tape, open, high, low, close), tape,
                             open, high, low, close, numPoints, 0, open, SwingDraws(tape))
    IN  [points EXCEPT ![1] = open, ![Len(points)] = close]

(* parseFloat(x.toFixed(2)) in fetchRealBTCData.js, x >= 0: x rounded to a
   multiple of 1/100, which is PriceStep / 100 fixed-point units;
   parseFloat(x.toFixed(8)) in fetchAllAssetsData.js keeps every fixed-point
   price as it is *)
toFixed(script, x) ==
    IF script = "fetchRealBTCData"
    THEN ((x * 200 + PriceStep) \div (2 * PriceStep)) * (PriceStep \div 100)
    ELSE x

(* Faulty variant of RunningHigh: the running high follows the price *)
RunningHighOfTick(runningHigh, currentPrice) == currentPrice

(* runningHigh = Math.max(runningHigh, currentPrice) *)
RunningHigh(runningHigh, currentPrice) ==
    IF currentPrice > runningHigh THEN currentPrice ELSE runningHigh

(* runningLow = Math.min(runningLow, currentPrice) *)
RunningLow(runningLow, currentPrice) == Min(runningLow, currentPrice)

(* The loop of generateCandleTicks from tick i on: one object pushed per
   price of the path *)
RECURSIVE TickLoop(_, _, _, _, _, _, _)
TickLoop(script, open, pricePoints, ticksPerCandle, i, runningHigh, runningLow) ==
    IF i >= ticksPerCandle THEN <<>>
    ELSE LET currentPrice == pricePoints[i + 1]
             newHigh      == RunningHigh(runningHigh, currentPrice)
             newLow       == RunningLow(runningLow, currentPrice)
         IN  <<[tick_index    |-> i,
                price         |-> toFixed(script, currentPrice),
                running_open  |-> toFixed(script, open),
                running_high  |-> toFixed(script, newHigh),
                running_low   |-> toFixed(script, newLow),
                running_close |-> toFixed(script, currentPrice),
                is_final_tick |-> (i = ticksPerCandle - 1)]>>
             \o TickLoop(script, open, pricePoints, ticksPerCandle, i + 1, newHigh, newLow)

(* generateCandleTicks(candle, timeframeStr, ticksPerCandle) of the scripts *)
CandleTicks(script, tape, open, high, low, close, ticksPerCandle) ==
    TickLoop(script, open,
             generateDetailedPricePath(script, tape, open, high, low, close, ticksPerCandle),
             ticksPerCandle, 0, open, open)

(* The store is not involved *)
InitPath ==
    /\ candlesWithTicks = <<>>
    /\ candles = <<>>
    /\ currentCandleIndex = 0
    /\ currentTickIndex = 0
    /\ progressiveMode = TRUE
    /\ openTrades = <<>>
    /\ closedTrades = <<>>
    /\ balance = DefaultBalance
    /\ trades = <<>>
    /\ inflight = <<>>
    /\ isPlaying = FALSE
    /\ savedState = <<>>
    /\ call = <<>>

(* generateDetailedPricePath applied to a candle with
   low <= open, close <= high *)
OpGenerateDetailedPricePath ==
    /\ call = <<>>
    /\ \E script \in Scripts, tape \in Tapes, numPoints \in 2..MaxPoints,
          o \in Prices, h \in Prices, l \in Prices, c \in Prices :
          /\ l <= o /\ l <= c /\ o <= h /\ c <= h
          /\ call' = Returned("generateDetailedPricePath",
                              [script |-> script, tape |-> tape,
                               open |-> o * PriceStep, high |-> h * PriceStep,
                               low |-> l * PriceStep, close |-> c * PriceStep,
                               numPoints |-> numPoints],
                              0,
                              generateDetailedPricePath(script, tape,
                                  o * PriceStep, h * PriceStep, l * PriceStep,
                                  c * PriceStep, numPoints))
    /\ UNCHANGED <<isPlaying, savedState, seriesVars, cursorVars, ledgerVars, progressiveMode, trades, inflight>>

(* generateCandleTicks applied to a candle with low <= open, close <= high *)
OpGenerateCandleTicks ==
    /\ call = <<>>
    /\ \E script \in Scripts, tape \in Tapes, ticksPerCandle \in 2..MaxPoints,
          o \in Prices, h \in Prices, l \in Prices, c \in Prices :
          /\ l <= o /\ l <= c /\ o <= h /\ c <= h
          /\ call' = Returned("generateCandleTicks",
                              [script |-> script, tape |-> tape,
                               open |-> o * PriceStep, high |-> h * PriceStep,
                               low |-> l * PriceStep, close |-> c * PriceStep,
                               numPoints |-> ticksPerCandle],
                              0,
                              CandleTicks(script, tape, o * PriceStep, h * PriceStep,
                                          l * PriceStep, c * PriceStep, ticksPerCandle))
    /\ UNCHANGED <<isPlaying, savedState, seriesVars, cursorVars, ledgerVars, progressiveMode, trades, inflight>>

(* GET /candles-with-ticks: a row of candle_ticks as the route sends it *)
TickOfRow(tick) ==
    [tickIndex    |-> tick.tick_index,
     price        |-> tick.price,
     runningOpen  |-> tick.running_open,
     runningHigh  |-> tick.running_high,
     runningLow   |-> tick.running_low,
     runningClose |-> tick.running_close,
     isFinalTick  |-> tick.is_final_tick]

(* GET /candles-with-ticks: a candle of market_data bundled with the ticks
   stored for it *)
CandleWithTicks(open, high, low, close, rows) ==
    [open |-> open, high |-> high, low |-> low, close |-> close,
     ticks |-> [i \in 1..Len(rows) |-> TickOfRow(rows[i])]]

(* The orders of the positions held through a candle: side, stop-loss and
   take-profit, the levels at the candle's extremes *)
Brackets(high, low) ==
    <<<<"BUY", low, NULL>>, <<"BUY", NULL, high>>,
      <<"SELL", high, NULL>>, <<"SELL", NULL, low>>>>

(* The backend table and the open set after the orders have been placed at
   entryPrice *)
RECURSIVE OpenedAt(_, _)
OpenedAt(orders, entryPrice) ==
    IF orders = <<>> THEN [table |-> <<>>, openTrades |-> <<>>]
    ELSE LET sofar == OpenedAt(SubSeq(orders, 1, Len(orders) - 1), entryPrice)
             order == orders[Len(orders)]
             r     == PostOpen(sofar.table, order[1], entryPrice, 1, order[2], order[3])
         IN  [table |-> r.table, openTrades |-> addOpenTrade(sofar.openTrades, r.data)]

(* steps firings of the autoplay interval in progressive mode, from the
   cursor on: each evaluates the forming candle, then advances the tick *)
RECURSIVE AutoplayFirings(_, _, _, _)
AutoplayFirings(series, steps, cursor, ledger) ==
    IF steps = 0 THEN [cursor |-> cursor, ledger |-> ledger]
    ELSE LET formingCandle == getCurrentFormingCandle(series, cursor.currentCandleIndex,
                                                      cursor.currentTickIndex, TRUE)
             r == checkAndExecuteSLTP(ledger.openTrades, ledger.closedTrades,
                                      ledger.balance, formingCandle)
         IN  AutoplayFirings(series, steps - 1,
                             advanceTick(series, cursor.currentCandleIndex,
                                         cursor.currentTickIndex),
                             r)

(* A candle is given its ticks by generateCandleTicks and loaded; positions
   with brackets at its extremes are open at its open price.  The store replays the candle progressively,
   one firing of the autoplay interval per tick; the ledger of the one firing
   that evaluates the candle in instant mode is returned for comparison. *)
OpReplayCandle ==
    /\ call = <<>>
    /\ \E script \in Scripts, tape \in Tapes, ticksPerCandle \in 2..MaxPoints,
          o \in Prices, h \in Prices, l \in Prices, c \in Prices :
          /\ l <= o /\ l <= c /\ o <= h /\ c <= h
          /\ LET rows   == CandleTicks(script, tape, o * PriceStep, h * PriceStep,
                                    l * PriceStep, c * PriceStep, ticksPerCandle)
                 series == <<CandleWithTicks(o * PriceStep, h * PriceStep,
                                             l * PriceStep, c * PriceStep, rows)>>
                 opened == OpenedAt(Brackets(h * PriceStep, l * PriceStep), o * PriceStep)
                 ledger == [openTrades   |-> opened.openTrades,
                            closedTrades |-> <<>>,
                            balance      |-> DefaultBalance]
                 instant == checkAndExecuteSLTP(ledger.openTrades, ledger.closedTrades,
                                ledger.balance,
                                getCurrentFormingCandle(series, 0, 0, FALSE))
                 progressive == AutoplayFirings(series, ticksPerCandle,
                                    [currentCandleIndex |-> 0, currentTickIndex |-> 0],
                                    ledger)
             IN  /\ candlesWithTicks' = series
                 /\ candles' = <<>>
                 /\ trades' = opened.table
                 /\ openTrades' = progressive.ledger.openTrades
                 /\ closedTrades' = progressive.ledger.closedTrades
                 /\ balance' = progressive.ledger.balance
                 /\ currentCandleIndex' = progressive.cursor.currentCandleIndex
                 /\ currentTickIndex' = progressive.cursor.currentTickIndex
                 /\ call' = Returned("replayCandle",
                                     [script |-> script, tape |-> tape,
                                      open |-> o * PriceStep, high |-> h * PriceStep,
                                      low |-> l * PriceStep, close |-> c * PriceStep,
                                      numPoints |-> ticksPerCandle],
                                     0, instant)
    /\ UNCHANGED <<isPlaying, savedState, progressiveMode, inflight>>

NextPath ==
    \/ OpGenerateDetailedPricePath
    \/ OpGenerateCandleTicks
    \/ OpReplayCandle

SpecPath == InitPath /\ [][NextPath]_vars

----------------------------------------------------------------------------
(* Vocabulary of the properties *)

(* A level is set when it is a price *)
IsSet(level) == level # NULL /\ level > 0

CallOp == IF call = <<>> THEN "" ELSE call[1].op
CallArgs == call[1].args
CallBefore == call[1].before

(* The window given to checkAndExecuteSLTP *)
CallHigh == CallArgs[1]
CallLow == CallArgs[2]

IsOpen(id) == \E i \in 1..Len(openTrades) : openTrades[i].id = id
WasOpen(id) == \E i \in 1..Len(CallBefore.openTrades) : CallBefore.openTrades[i].id = id

(* The entries the operation applied has appended to closedTrades *)
NewClosed == (Len(CallBefore.closedTrades) + 1)..Len(closedTrades)
ClosedNow(id) == \E k \in NewClosed : closedTrades[k].id = id

(* The trigger conditions of a position for a window *)
StopTriggered(t, high, low) ==
    IsSet(t.stop_loss) /\ IF t.trade_type = "BUY" THEN low <= t.stop_loss
                                                 ELSE high >= t.stop_loss
TargetTriggered(t, high, low) ==
    IsSet(t.take_profit) /\ IF t.trade_type = "BUY" THEN high >= t.take_profit
                                                   ELSE low <= t.take_profit

(* The realized pnl of a close *)
Realized(side, entryPrice, exitPrice, size) ==
    IF side = "BUY" THEN (exitPrice - entryPrice) * size
                    ELSE (entryPrice - exitPrice) * size

RECURSIVE SumPnl(_)
SumPnl(closed) ==
    IF closed = <<>> THEN 0 ELSE closed[1].pnl + SumPnl(Tail(closed))

(* The cursor is on the last candle and, in progressive mode, on its final
   tick or the candle has no ticks *)
AtEnd ==
    /\ currentCandleIndex = Len(candlesWithTicks) - 1
    /\ progressiveMode =>
          LET tickCount == Len(candlesWithTicks[currentCandleIndex + 1].ticks)
          IN  tickCount = 0 \/ currentTickIndex = tickCount - 1

----------------------------------------------------------------------------
(* C1 -- stop-loss precedence: a position with both levels set, given a window
   in which both trigger conditions hold, is closed by checkAndExecuteSLTP
   with reason 'Stop Loss' at exit price stop_loss, never with reason
   'Take Profit'. *)
C1_StopLossPrecedence ==
    CallOp = "checkAndExecuteSLTP" =>
        \A i \in 1..Len(CallBefore.openTrades) :
            LET t == CallBefore.openTrades[i]
            IN  (StopTriggered(t, CallHigh, CallLow) /\ TargetTriggered(t, CallHigh, CallLow)) =>
                    /\ ~IsOpen(t.id)
                    /\ \E k \in NewClosed :
                          /\ closedTrades[k].id = t.id
                          /\ closedTrades[k].exit_reason = "Stop Loss"
                          /\ closedTrades[k].exit_price = t.stop_loss
                    /\ \A k \in NewClosed :
                          closedTrades[k].id = t.id =>
                              closedTrades[k].exit_reason # "Take Profit"

(* A window spanning both levels of a position has been evaluated and the
   position was closed by its stop-loss *)
C1_Witness ==
    /\ CallOp = "checkAndExecuteSLTP"
    /\ \E i \in 1..Len(CallBefore.openTrades), k \in NewClosed :
          LET t == CallBefore.openTrades[i]
          IN  /\ StopTriggered(t, CallHigh, CallLow)
              /\ TargetTriggered(t, CallHigh, CallLow)
              /\ t.stop_loss # t.take_profit
              /\ closedTrades[k].id = t.id
              /\ closedTrades[k].exit_reason = "Stop Loss"

(* C2 -- checkAndExecuteSLTP closes an open position if and only if its
   trigger condition holds for the window (inclusive comparisons); every
   other position stays in the open set unchanged, and nothing else is
   closed. *)
C2_ClosesIffTriggered ==
    CallOp = "checkAndExecuteSLTP" =>
        /\ \A i \in 1..Len(CallBefore.openTrades) :
              LET t == CallBefore.openTrades[i]
                  triggered == \/ StopTriggered(t, CallHigh, CallLow)
                               \/ TargetTriggered(t, CallHigh, CallLow)
              IN  /\ ClosedNow(t.id) <=> triggered
                  /\ IsOpen(t.id) <=> ~triggered
                  /\ ~triggered => \E j \in 1..Len(openTrades) : openTrades[j] = t
        /\ \A k \in NewClosed : WasOpen(closedTrades[k].id)
        /\ Len(openTrades) + Cardinality(NewClosed) = Len(CallBefore.openTrades)
        /\ SubSeq(closedTrades, 1, Len(CallBefore.closedTrades)) = CallBefore.closedTrades

(* A window that just touches the stop-loss of one position has closed it
   while another position, whose stop-loss is set but not reached, stays open *)
C2_Witness ==
    /\ CallOp = "checkAndExecuteSLTP"
    /\ \E i, j \in 1..Len(CallBefore.openTrades) :
          LET t == CallBefore.openTrades[i]
              u == CallBefore.openTrades[j]
          IN  /\ t.trade_type = "BUY"
              /\ t.stop_loss = CallLow
              /\ ClosedNow(t.id)
              /\ IsSet(u.stop_loss)
              /\ IsOpen(u.id)

(* C3 -- the exit_price recorded by checkAndExecuteSLTP is exactly the
   position's stop_loss (reason Stop Loss) or take_profit (reason Take
   Profit), never the window's high or low. *)
C3_ExitAtLevel ==
    CallOp = "checkAndExecuteSLTP" =>
        \A k \in NewClosed :
            LET e == closedTrades[k]
                t == CallBefore.trades[e.id]
            IN  \/ e.exit_reason = "Stop Loss" /\ e.exit_price = t.stop_loss
                \/ e.exit_reason = "Take Profit" /\ e.exit_price = t.take_profit

(* A window that overshoots the stop-loss of a BUY has closed it at the level *)
C3_Witness ==
    /\ CallOp = "checkAndExecuteSLTP"
    /\ \E k \in NewClosed :
          /\ closedTrades[k].trade_type = "BUY"
          /\ closedTrades[k].exit_reason = "Stop Loss"
          /\ CallLow < closedTrades[k].stop_loss
          /\ closedTrades[k].exit_price = closedTrades[k].stop_loss

(* C4 -- no false triggers: a position whose stop-loss and take-profit are
   both unset is never closed by checkAndExecuteSLTP, whatever the replay
   has stepped through; it is open, or a manual close has recorded it. *)
C4_NoFalseTrigger ==
    \A id \in DOMAIN trades :
        (~IsSet(trades[id].stop_loss) /\ ~IsSet(trades[id].take_profit)) =>
            /\ \A k \in 1..Len(closedTrades) :
                  closedTrades[k].id = id =>
                      closedTrades[k].exit_reason \notin {"Stop Loss", "Take Profit"}
            /\ \/ IsOpen(id)
               \/ \E k \in 1..Len(closedTrades) :
                     /\ closedTrades[k].id = id
                     /\ closedTrades[k].exit_reason = "undefined"

(* A position without levels has been carried through replay steps (the
   price has moved since its entry) and was then closed by hand *)
C4_Witness ==
    \E id \in DOMAIN trades, k \in 1..Len(closedTrades) :
        /\ trades[id].stop_loss = NULL
        /\ trades[id].take_profit = NULL
        /\ ~IsOpen(id)
        /\ closedTrades[k].id = id
        /\ closedTrades[k].exit_reason = "undefined"
        /\ closedTrades[k].pnl # 0

(* C5 -- the realized pnl of every close is (exitPrice - entryPrice) * size
   for a BUY and (entryPrice - exitPrice) * size for a SELL, for an automatic
   close in the store and for a close through PUT /trades/:id/close. *)
C5_RealizedPnl ==
    /\ CallOp = "checkAndExecuteSLTP" =>
          \A k \in NewClosed :
              LET e == closedTrades[k]
                  t == CallBefore.trades[e.id]
              IN  e.pnl = Realized(t.trade_type, t.entry_price, e.exit_price,
                                   t.position_size)
    /\ (CallOp = "PUT /:id/close" /\ call[1].status = 200) =>
          LET t == CallBefore.trades[CallArgs[1]]
              row == trades[CallArgs[1]]
          IN  /\ row.exit_price = CallArgs[2]
              /\ row.pnl = Realized(t.trade_type, t.entry_price, CallArgs[2],
                                    t.position_size)

(* A SELL of size above one has been closed automatically at a loss *)
C5_Witness ==
    /\ CallOp = "checkAndExecuteSLTP"
    /\ \E k \in NewClosed :
          /\ closedTrades[k].trade_type = "SELL"
          /\ closedTrades[k].position_size > 1
          /\ closedTrades[k].pnl < 0

(* C6 -- balance invariant: after any sequence of operations of a session,
   balance is the session's initial balance plus the sum of pnl over all
   entries of closedTrades. *)
C6_BalanceInvariant ==
    balance = DefaultBalance + SumPnl(closedTrades)

(* Two entries have been recorded, one by an automatic close and one by
   closeTrade, and the balance has moved *)
C6_Witness ==
    /\ balance # DefaultBalance
    /\ \E j, k \in 1..Len(closedTrades) :
          /\ closedTrades[j].exit_reason = "Stop Loss"
          /\ closedTrades[k].exit_reason = "undefined"

(* C7 -- closing a position is the only path by which the balance changes:
   every change of balance coincides with exactly one position moving from
   the open set to the closed set, and addOpenTrade, advanceTick,
   advanceCandle, setCandlesWithTicks, setProgressiveMode and a
   checkAndExecuteSLTP call that closes nothing leave balance unchanged. *)
C7_OnlyClosingMovesBalance ==
    call # <<>> =>
        /\ balance # CallBefore.balance =>
              /\ CallOp \in {"closeTrade", "checkAndExecuteSLTP"}
              /\ Cardinality(NewClosed) = 1
              /\ Len(openTrades) = Len(CallBefore.openTrades) - 1
              /\ \A k \in NewClosed :
                    WasOpen(closedTrades[k].id) /\ ~IsOpen(closedTrades[k].id)
        /\ CallOp \in {"addOpenTrade", "advanceTick", "advanceCandle",
                       "setCandlesWithTicks", "setProgressiveMode"} =>
              balance = CallBefore.balance
        /\ (CallOp = "checkAndExecuteSLTP" /\ NewClosed = {}) =>
              balance = CallBefore.balance

(* C8 -- closing a position id that is not currently open fails with a
   not-found outcome and leaves the open set, the closed set and the balance
   unchanged, for the store's closeTrade and for PUT /trades/:id/close. *)
C8_CloseNotOpenFails ==
    /\ (CallOp = "closeTrade" /\ ~WasOpen(CallArgs[1])) =>
          /\ openTrades = CallBefore.openTrades
          /\ closedTrades = CallBefore.closedTrades
          /\ balance = CallBefore.balance
    /\ (/\ CallOp = "PUT /:id/close"
        /\ ~(/\ CallArgs[1] \in DOMAIN CallBefore.trades
             /\ CallBefore.trades[CallArgs[1]].status = "open")) =>
          /\ call[1].status = 404
          /\ trades = CallBefore.trades

(* C9 -- opening a position with a non-positive size, a non-positive entry
   price or a side other than BUY/SELL is rejected: no entry is added to the
   open set and no trade row is created. *)
C9_InvalidOpenRejected ==
    (/\ CallOp \in {"POST /open", "handleTrade"}
     /\ ~(CallArgs[1] \in Sides /\ CallArgs[2] > 0 /\ CallArgs[3] > 0)) =>
        /\ trades = CallBefore.trades
        /\ openTrades = CallBefore.openTrades

(* C10 -- cursor termination: once the cursor is on the last candle (in
   progressive mode on its final tick, or the candle is tickless), no step
   of the replay changes (currentCandleIndex, currentTickIndex). *)
C10_CursorTermination ==
    [][AtEnd => cursorVars' = cursorVars]_vars

----------------------------------------------------------------------------
(* Vocabulary of the cursor properties *)

LastIndex == Len(candlesWithTicks) - 1
TickCount(candleIndex) == Len(candlesWithTicks[candleIndex + 1].ticks)

(* The cursor the operation was applied to *)
BeforeCandle == CallBefore.currentCandleIndex
BeforeTick == CallBefore.currentTickIndex

(* (c1, t1) <= (c2, t2), lexicographically *)
LexLeq(c1, t1, c2, t2) == c1 < c2 \/ (c1 = c2 /\ t1 <= t2)

(* C11 -- cursor bounds: in every reachable state of a session,
   0 <= currentCandleIndex <= length - 1 of the series and currentTickIndex
   is within the ticks of the current candle (0 if it is tickless). *)
C11_CursorBounds ==
    /\ currentCandleIndex \in 0..LastIndex
    /\ currentTickIndex \in 0..Max0(TickCount(currentCandleIndex) - 1)

(* C12 -- cursor monotonicity: no step of a session decreases
   (currentCandleIndex, currentTickIndex), compared lexicographically. *)
C12_CursorMonotone ==
    [][LexLeq(currentCandleIndex, currentTickIndex,
              currentCandleIndex', currentTickIndex')]_vars

(* C13 -- progressive advance: advanceTick increments the tick index when
   the current candle has ticks and the cursor is not on its last tick;
   otherwise it moves to (currentCandleIndex + 1, 0) if a later candle
   exists, tickless candles included; otherwise it changes nothing. *)
C13_AdvanceTick ==
    CallOp = "advanceTick" =>
        IF TickCount(BeforeCandle) > 0 /\ BeforeTick < TickCount(BeforeCandle) - 1
        THEN currentCandleIndex = BeforeCandle /\ currentTickIndex = BeforeTick + 1
        ELSE IF BeforeCandle < LastIndex
        THEN currentCandleIndex = BeforeCandle + 1 /\ currentTickIndex = 0
        ELSE currentCandleIndex = BeforeCandle /\ currentTickIndex = BeforeTick

(* advanceTick has moved the cursor from the last of several ticks of a
   candle to the start of the next candle *)
C13_Witness ==
    /\ CallOp = "advanceTick"
    /\ BeforeTick > 0
    /\ BeforeTick = TickCount(BeforeCandle) - 1
    /\ currentCandleIndex = BeforeCandle + 1
    /\ currentTickIndex = 0

(* C14 -- instant advance: in instant mode one replay step moves the cursor
   to (currentCandleIndex + 1, 0), the candle index clamped at the last
   candle of the series, whatever the tick index was. *)
C14_InstantAdvance ==
    (CallOp = "autoplay" /\ ~CallBefore.progressiveMode) =>
        /\ currentCandleIndex = Min(BeforeCandle + 1, LastIndex)
        /\ currentTickIndex = 0

(* C15 -- skip-candle position: from a cursor (c, t) with c not the last
   candle, handleSkipCandle leaves the cursor at (c + 1, 0), in progressive
   and in instant mode. *)
C15_SkipCandlePosition ==
    (CallOp = "handleSkipCandle" /\ BeforeCandle < LastIndex) =>
        /\ currentCandleIndex = BeforeCandle + 1
        /\ currentTickIndex = 0

(* C16 -- skip pre-evaluation: handleSkipCandle closes every open position
   whose stop-loss or take-profit condition holds for the full [low, high]
   range of the candle the cursor was on. *)
C16_SkipEvaluatesFullCandle ==
    CallOp = "handleSkipCandle" =>
        \A i \in 1..Len(CallBefore.openTrades) :
            LET t == CallBefore.openTrades[i]
                skipped == candlesWithTicks[BeforeCandle + 1]
            IN  (\/ StopTriggered(t, skipped.high, skipped.low)
                 \/ TargetTriggered(t, skipped.high, skipped.low)) =>
                    ClosedNow(t.id) /\ ~IsOpen(t.id)

(* A candle was skipped from a tick whose running low had not reached the
   stop-loss of a BUY, and the skip closed the position at its stop-loss *)
C16_Witness ==
    /\ CallOp = "handleSkipCandle"
    /\ CallBefore.progressiveMode
    /\ TickCount(BeforeCandle) > 0
    /\ \E k \in NewClosed :
          /\ closedTrades[k].trade_type = "BUY"
          /\ closedTrades[k].exit_reason = "Stop Loss"
          /\ candlesWithTicks[BeforeCandle + 1].ticks[BeforeTick + 1].runningLow
                 > closedTrades[k].stop_loss
    /\ currentCandleIndex = BeforeCandle + 1

(* C17 -- current forming window: in progressive mode on a candle that has
   ticks, getCurrentFormingCandle returns the candle's open, the running high
   and low and the price of the current tick, and that tick's isFinalTick;
   in instant mode or on a tickless candle, the candle's full OHLC with
   isComplete = true. *)
C17_FormingWindow ==
    CallOp = "getCurrentFormingCandle" =>
        LET candle == candlesWithTicks[BeforeCandle + 1]
            window == call[1].result[1]
        IN  /\ Len(call[1].result) = 1
            /\ IF CallBefore.progressiveMode /\ Len(candle.ticks) > 0
               THEN LET tick == candle.ticks[BeforeTick + 1]
                    IN  /\ window.open = candle.open
                        /\ window.high = tick.runningHigh
                        /\ window.low = tick.runningLow
                        /\ window.close = tick.runningClose
                        /\ window.isComplete = tick.isFinalTick
               ELSE /\ window.open = candle.open
                    /\ window.high = candle.high
                    /\ window.low = candle.low
                    /\ window.close = candle.close
                    /\ window.isComplete = TRUE

(* The forming window of a tick that is not the final one has been read: it
   is incomplete and has not yet reached the candle's high *)
C17_Witness ==
    /\ CallOp = "getCurrentFormingCandle"
    /\ Len(call[1].result) = 1
    /\ ~call[1].result[1].isComplete
    /\ call[1].result[1].high < candlesWithTicks[BeforeCandle + 1].high

(* C18 -- visible history never reveals the future: in every reachable state
   getVisibleCandles returns the full candles at the indices strictly below
   currentCandleIndex followed by the current forming window, and nothing of
   a candle at an index above currentCandleIndex. *)
C18_VisibleHistory ==
    LET visible == getVisibleCandles(candlesWithTicks, currentCandleIndex,
                                     currentTickIndex, progressiveMode)
        forming == getCurrentFormingCandle(candlesWithTicks, currentCandleIndex,
                                           currentTickIndex, progressiveMode)
    IN  /\ Len(visible) = Max0(currentCandleIndex) + Len(forming)
        /\ \A i \in 1..Len(visible) :
              IF i <= currentCandleIndex
              THEN visible[i] = Bar(candlesWithTicks[i].open, candlesWithTicks[i].high,
                                    candlesWithTicks[i].low, candlesWithTicks[i].close)
              ELSE /\ i = currentCandleIndex + 1
                   /\ visible[i] = Bar(forming[1].open, forming[1].high,
                                       forming[1].low, forming[1].close)

----------------------------------------------------------------------------
(* Vocabulary of the price path properties *)

PathCandle == CallArgs
PathValues == call[1].result

(* C19 -- path boundary invariant: for every candle with
   low <= min(open, close) <= max(open, close) <= high, every n >= 2 and
   every outcome of the random choices, generateDetailedPricePath returns
   exactly n values, the first equal to open, the last equal to close and
   every one within [low, high]. *)
C19_PathBoundary ==
    CallOp = "generateDetailedPricePath" =>
        /\ Len(PathValues) = PathCandle.numPoints
        /\ PathValues[1] = PathCandle.open
        /\ PathValues[Len(PathValues)] = PathCandle.close
        /\ \A i \in 1..Len(PathValues) :
              PathCandle.low <= PathValues[i] /\ PathValues[i] <= PathCandle.high
        /\ PathCandle.high = PathCandle.low =>
              \A i \in 1..Len(PathValues) : PathValues[i] = PathCandle.low

(* A path of more than two values has been generated for a candle that
   opens and closes below its high, and a value between the first and the
   last one is the high *)
C19_Witness ==
    /\ CallOp = "generateDetailedPricePath"
    /\ PathCandle.numPoints > 2
    /\ PathCandle.open < PathCandle.high
    /\ PathCandle.close < PathCandle.high
    /\ \E i \in 2..(Len(PathValues) - 1) : PathValues[i] = PathCandle.high

(* C20 -- the path visits both extremes: for every valid candle with
   high # low and every outcome of the random choices, the values returned
   by generateDetailedPricePath contain a value equal to high and a value
   equal to low. *)
C20_PathVisitsExtremes ==
    (CallOp = "generateDetailedPricePath" /\ PathCandle.high # PathCandle.low) =>
        /\ \E i \in 1..Len(PathValues) : PathValues[i] = PathCandle.high
        /\ \E i \in 1..Len(PathValues) : PathValues[i] = PathCandle.low

(* C21 -- running OHLC monotonicity: in the ticks generateCandleTicks
   produces for a candle, running_high is non-decreasing and running_low is
   non-increasing in tick_index, running_open is the candle's open on every
   tick, running_low <= price <= running_high on every tick, and
   is_final_tick is true on the last tick and only there. *)
C21_RunningOHLC ==
    CallOp = "generateCandleTicks" =>
        LET ticks == call[1].result
        IN  /\ \A i \in 1..Len(ticks) :
                  /\ ticks[i].tick_index = i - 1
                  /\ ticks[i].running_open = PathCandle.open
                  /\ ticks[i].running_low <= ticks[i].price
                  /\ ticks[i].price <= ticks[i].running_high
                  /\ ticks[i].is_final_tick <=> (i = Len(ticks))
            /\ \A i \in 1..(Len(ticks) - 1) :
                  /\ ticks[i].running_high <= ticks[i + 1].running_high
                  /\ ticks[i].running_low >= ticks[i + 1].running_low

(* Ticks have been generated whose price rises to a new running high and
   then falls below it again, to a new running low *)
C21_Witness ==
    /\ CallOp = "generateCandleTicks"
    /\ \E i \in 1..(Len(call[1].result) - 2) :
          LET ticks == call[1].result
          IN  /\ ticks[i + 1].running_high > ticks[i].running_high
              /\ ticks[i + 2].price < ticks[i + 1].running_high
              /\ ticks[i + 2].running_low < ticks[i + 1].running_low

----------------------------------------------------------------------------
(* Vocabulary of the replay step properties *)

(* A replay step taken tick by tick: a firing of the autoplay interval in
   progressive mode, or Skip Tick *)
TickStep == (progressiveMode /\ AutoplayStep) \/ HandleSkipTick

(* The cursor is on a tick of a candle *)
OnTick ==
    /\ currentCandleIndex \in 0..LastIndex
    /\ currentTickIndex \in 0..(TickCount(currentCandleIndex) - 1)

(* The tick the cursor is on *)
CursorTick == candlesWithTicks[currentCandleIndex + 1].ticks[currentTickIndex + 1]

(* The entries the step appends to closedTrades *)
ClosedByStep(id, reason, exitPrice) ==
    \E k \in (Len(closedTrades) + 1)..Len(closedTrades') :
        /\ closedTrades'[k].id = id
        /\ closedTrades'[k].exit_reason = reason
        /\ closedTrades'[k].exit_price = exitPrice

StaysOpen(t) == \E j \in 1..Len(openTrades') : openTrades'[j] = t

(* C22 -- progressive stop-out timing: while a candle is stepped tick by
   tick, a BUY position with a stop-loss S below its entry price and no
   take-profit stays open on every step whose window has runningLow > S and
   is closed, with reason Stop Loss at exit price S, by the first step whose
   window has runningLow <= S. *)
C22_ProgressiveStopOut ==
    [][(TickStep /\ OnTick) =>
          \A i \in 1..Len(openTrades) :
              LET t == openTrades[i]
              IN  (/\ t.trade_type = "BUY"
                   /\ IsSet(t.stop_loss)
                   /\ ~IsSet(t.take_profit)
                   /\ t.stop_loss < t.entry_price) =>
                      IF CursorTick.runningLow > t.stop_loss
                      THEN StaysOpen(t)
                      ELSE /\ ~StaysOpen(t)
                           /\ ClosedByStep(t.id, "Stop Loss", t.stop_loss)]_vars

(* A BUY entered at the open of the first candle has stayed open through the
   step at tick 0 and was stopped out by the step at tick 1: the cursor is on
   the tick after *)
C22_Witness ==
    /\ progressiveMode
    /\ currentCandleIndex = 0
    /\ currentTickIndex = 2
    /\ \E k \in 1..Len(closedTrades) :
          /\ closedTrades[k].trade_type = "BUY"
          /\ closedTrades[k].entry_price = MarketCandle(0).open
          /\ closedTrades[k].take_profit = NULL
          /\ closedTrades[k].stop_loss < closedTrades[k].entry_price
          /\ closedTrades[k].exit_reason = "Stop Loss"
          /\ closedTrades[k].exit_price = closedTrades[k].stop_loss

(* C23 -- the end of the series stops autoplay: when autoplay is running
   and the cursor is at the terminal position (last candle, on its final
   tick or tickless), isPlaying eventually becomes false. *)
C23_AutoplayStops == (isPlaying /\ AtEnd) ~> ~isPlaying

(* C24 -- an inverted stop does not trigger: checkAndExecuteSLTP does not
   close a BUY whose stop-loss is above its entry price on a window lying
   entirely below the stop-loss, nor a SELL whose stop-loss is below its
   entry price on a window lying entirely above it (the take-profit, if any,
   not being reached). *)
C24_InvertedStopIdle ==
    CallOp = "checkAndExecuteSLTP" =>
        \A i \in 1..Len(CallBefore.openTrades) :
            LET t == CallBefore.openTrades[i]
            IN  (/\ IsSet(t.stop_loss)
                 /\ ~TargetTriggered(t, CallHigh, CallLow)
                 /\ IF t.trade_type = "BUY"
                    THEN t.stop_loss > t.entry_price /\ CallHigh < t.stop_loss
                    ELSE t.stop_loss < t.entry_price /\ CallLow > t.stop_loss) =>
                    IsOpen(t.id)

(* C25 -- fresh session start: when a new session has been started from
   the session setup (after login, or after New Session was chosen over a
   saved session) and its series has been loaded, the cursor is at (0, 0) and
   there are no open and no closed positions. *)
C25_FreshSession ==
    (/\ Len(call) >= 2
     /\ call[Len(call)].op = "loadCandles"
     /\ call[Len(call) - 1].op = "handleSubmit") =>
        /\ currentCandleIndex = 0
        /\ currentTickIndex = 0
        /\ openTrades = <<>>
        /\ closedTrades = <<>>

(* C26 -- each position is closed at most once: under every interleaving
   of the timer-driven checkAndExecuteSLTP with an in-flight manual close, a
   position id appears at most once in closedTrades and never in both
   openTrades and closedTrades, every entry of closedTrades is a position
   that was opened, and only the pnl of those positions has been added to
   the balance, once each. *)
C26_ClosedAtMostOnce ==
    /\ \A j \in 1..Len(closedTrades), k \in 1..Len(closedTrades) :
          j # k => closedTrades[j].id # closedTrades[k].id
    /\ \A k \in 1..Len(closedTrades) :
          /\ ~IsOpen(closedTrades[k].id)
          /\ closedTrades[k].id \in DOMAIN trades
    /\ balance = DefaultBalance
                 + SumPnl(SelectSeq(closedTrades, LAMBDA t : t.id \in DOMAIN trades))

(* A replay step: a firing of the autoplay interval or Skip Tick *)
ReplayStep == AutoplayStep \/ HandleSkipTick

(* The window at the cursor: the running range of the current tick in
   progressive mode on a candle with ticks, the candle's range otherwise;
   <<>> when the cursor is on no candle *)
CursorWindow ==
    IF currentCandleIndex \notin 0..LastIndex THEN <<>>
    ELSE IF progressiveMode /\ OnTick
    THEN <<[high |-> CursorTick.runningHigh, low |-> CursorTick.runningLow]>>
    ELSE <<[high |-> candlesWithTicks[currentCandleIndex + 1].high,
            low  |-> candlesWithTicks[currentCandleIndex + 1].low]>>

(* C27 -- one evaluation per replay step, before the advance: every autoplay
   step and every Skip Tick evaluates the open positions once against the
   window at the cursor the step starts from: the positions whose stop-loss
   or take-profit condition holds for that window are closed, once each, and
   no other position is. *)
C27_EvaluateThenAdvance ==
    [][ReplayStep =>
          \A i \in 1..Len(openTrades) :
              LET t == openTrades[i]
                  triggered ==
                      /\ CursorWindow # <<>>
                      /\ \/ StopTriggered(t, CursorWindow[1].high, CursorWindow[1].low)
                         \/ TargetTriggered(t, CursorWindow[1].high, CursorWindow[1].low)
              IN  IF triggered
                  THEN /\ ~StaysOpen(t)
                       /\ Cardinality({k \in (Len(closedTrades) + 1)..Len(closedTrades') :
                                          closedTrades'[k].id = t.id}) = 1
                  ELSE /\ StaysOpen(t)
                       /\ \A k \in (Len(closedTrades) + 1)..Len(closedTrades') :
                             closedTrades'[k].id # t.id]_vars

(* A BUY with both levels, entered on the first tick, was left open by the
   step from that tick and stopped out by the step from the next one, whose
   window is the first to reach the stop-loss *)
C27_Witness ==
    /\ progressiveMode
    /\ currentCandleIndex = 0
    /\ currentTickIndex = 2
    /\ \E k \in 1..Len(closedTrades) :
          /\ closedTrades[k].trade_type = "BUY"
          /\ closedTrades[k].entry_price = MarketCandle(0).open
          /\ IsSet(closedTrades[k].take_profit)
          /\ closedTrades[k].exit_reason = "Stop Loss"
          /\ closedTrades[k].exit_price = MarketCandle(0).ticks[2].runningLow

(* C28 -- closed-position record consistency: every entry of closedTrades,
   produced by a manual close or by checkAndExecuteSLTP, carries an exit
   price, an exit reason among Manual, Stop Loss and Take Profit, and a pnl
   that is the PnL formula applied to its own side, entry price, size and
   recorded exit price. *)
C28_ClosedRecord ==
    \A k \in 1..Len(closedTrades) :
        LET t == closedTrades[k]
        IN  /\ IsSet(t.exit_price)
            /\ t.exit_reason \in {"Manual", "Stop Loss", "Take Profit"}
            /\ t.pnl = Realized(t.trade_type, t.entry_price, t.exit_price, t.position_size)

(* The position the order of the history has opened *)
OrderedTrade ==
    LET placed == call[2].before.openTrades
    IN  placed[Len(placed)]

(* C29 -- no look-back stop-out: a position opened at the cursor, at the
   close of the forming window, is not closed by the first evaluation after
   the order unless the price is at its stop-loss or take-profit level at the
   moment of entry or later; an extreme the window reached before the entry
   does not close it. *)
C29_NoLookBack ==
    (Len(call) = 2 /\ call[1].op = "handleTrade"
        /\ Len(call[2].before.openTrades) > Len(call[1].before.openTrades))
    => LET t == OrderedTrade
       IN  ~IsOpen(t.id)
           => \/ StopTriggered(t, t.entry_price, t.entry_price)
              \/ TargetTriggered(t, t.entry_price, t.entry_price)

(* C30 -- progressive and instant replay agree on which positions close:
   for a candle with generated ticks and a position open at the start of the
   candle, if the instant-mode evaluation against the candle's full high and
   low closes the position, the position is closed by the time progressive
   replay has evaluated the candle's final tick. *)
C30_ReplayAgreement ==
    CallOp = "replayCandle"
    => \A k \in 1..Len(call[1].result.closedTrades) :
           \E j \in 1..Len(closedTrades) :
               closedTrades[j].id = call[1].result.closedTrades[k].id

====
